---------------------------- MODULE Spec2Model ----------------------------
(***************************************************************************)
(* Model of caravel/data/__init__.py: the loaders that seed a caravel      *)
(* instance with example datasets, slices and dashboards.                  *)
(*                                                                         *)
(* The metadata database is the variable `store` (one set of records per   *)
(* ORM model), the relational data tables are `engine`, the search cluster *)
(* indices are `es`.  A loader invocation is the variable `run`; it moves  *)
(* from one eagerly committed step of the code to the next.                *)
(***************************************************************************)
EXTENDS Integers, Sequences, FiniteSets, TLC

\* ------------------------------------------------------------------------
\* Bounds of the model.
\* ------------------------------------------------------------------------

\* Number of loader invocations started in one behaviour.
MaxRuns == 2

\* Number of loader invocations that fail part-way (SpecAbort).
MaxAborts == 1

\* Number of get_or_create_slice calls in one behaviour (SpecSlice).
MaxCalls == 3

\* ------------------------------------------------------------------------
\* JSON values.  A value carries its JSON type, so that the string "100"
\* and the number 100 are different values.
\* ------------------------------------------------------------------------

S(x) == <<"s", x>>

N(n) == <<"n", n>>

L(xs) == <<"l", xs>>

\* A value read from the application configuration (config.get(name)).
Cfg(name) == <<"cfg", name>>

\* The python value None.
None == "None"

\* str(i) for an integer identifier.
Str(i) == S(ToString(i))

\* {}
EmptyDict == [k \in {} |-> None]

\* ------------------------------------------------------------------------
\* The literal configuration of the loaders.
\* ------------------------------------------------------------------------

\* load_energy: the get_or_create_slice calls, in program order (lines 170-236).
EnergySlices ==
  <<
     [slice_name |-> "Energy Sankey",
      viz_type |-> "sankey",
      defaults |-> EmptyDict,
      params |-> [collapsed_fieldsets |-> S(""),
                   flt_col_0 |-> S("source"),
                   flt_eq_0 |-> S(""),
                   flt_op_0 |-> S("in"),
                   groupby |-> L(<<S("source"), S("target")>>),
                   having |-> S(""),
                   metric |-> S("sum__value"),
                   row_limit |-> S("5000"),
                   slice_id |-> S(""),
                   where |-> S("")]],
     [slice_name |-> "Energy Force Layout",
      viz_type |-> "directed_force",
      defaults |-> EmptyDict,
      params |-> [charge |-> S("-500"),
                   collapsed_fieldsets |-> S(""),
                   flt_col_0 |-> S("source"),
                   flt_eq_0 |-> S(""),
                   flt_op_0 |-> S("in"),
                   groupby |-> L(<<S("source"), S("target")>>),
                   having |-> S(""),
                   link_length |-> S("200"),
                   metric |-> S("sum__value"),
                   row_limit |-> S("5000"),
                   where |-> S("")]],
     [slice_name |-> "Heatmap",
      viz_type |-> "heatmap",
      defaults |-> EmptyDict,
      params |-> [all_columns_x |-> S("source"),
                   all_columns_y |-> S("target"),
                   canvas_image_rendering |-> S("pixelated"),
                   collapsed_fieldsets |-> S(""),
                   flt_col_0 |-> S("source"),
                   flt_eq_0 |-> S(""),
                   flt_op_0 |-> S("in"),
                   having |-> S(""),
                   linear_color_scheme |-> S("blue_white_yellow"),
                   metric |-> S("sum__value"),
                   normalize_across |-> S("heatmap"),
                   where |-> S(""),
                   xscale_interval |-> S("1"),
                   yscale_interval |-> S("1")]]
  >>

\* load_world_bank_health_n_pop: the dictionary `defaults` (lines 253-270).
WbDefaults ==
    [compare_lag |-> S("10"),
     compare_suffix |-> S("o10Y"),
     limit |-> S("25"),
     granularity |-> S("year"),
     groupby |-> L(<<>>),
     metric |-> S("sum__SP_POP_TOTL"),
     metrics |-> L(<<S("sum__SP_POP_TOTL")>>),
     row_limit |-> Cfg("ROW_LIMIT"),
     since |-> S("2014-01-01"),
     until |-> S("2014-01-01"),
     where |-> S(""),
     markup_type |-> S("markdown"),
     country_fieldtype |-> S("cca3"),
     secondary_metric |-> S("sum__SP_POP_TOTL"),
     entity |-> S("country_code"),
     show_bubbles |-> S("y")]

\* load_world_bank_health_n_pop: the get_or_create_slice calls, in program order (lines 274-400).
WbSlices ==
  <<
     [slice_name |-> "Region Filter",
      viz_type |-> "filter_box",
      defaults |-> WbDefaults,
      params |-> [groupby |-> L(<<S("region"), S("country_name")>>)]],
     [slice_name |-> "World's Population",
      viz_type |-> "big_number",
      defaults |-> WbDefaults,
      params |-> [since |-> S("2000"),
                   compare_lag |-> S("10"),
                   metric |-> S("sum__SP_POP_TOTL"),
                   compare_suffix |-> S("over 10Y")]],
     [slice_name |-> "Most Populated Countries",
      viz_type |-> "table",
      defaults |-> WbDefaults,
      params |-> [metrics |-> L(<<S("sum__SP_POP_TOTL")>>),
                   groupby |-> L(<<S("country_name")>>)]],
     [slice_name |-> "Growth Rate",
      viz_type |-> "line",
      defaults |-> WbDefaults,
      params |-> [since |-> S("1960-01-01"),
                   metrics |-> L(<<S("sum__SP_POP_TOTL")>>),
                   num_period_compare |-> S("10"),
                   groupby |-> L(<<S("country_name")>>)]],
     [slice_name |-> "% Rural",
      viz_type |-> "world_map",
      defaults |-> WbDefaults,
      params |-> [metric |-> S("sum__SP_RUR_TOTL_ZS"),
                   num_period_compare |-> S("10")]],
     [slice_name |-> "Life Expexctancy VS Rural %",
      viz_type |-> "bubble",
      defaults |-> WbDefaults,
      params |-> [since |-> S("2011-01-01"),
                   until |-> S("2011-01-01"),
                   series |-> S("region"),
                   limit |-> S("0"),
                   entity |-> S("country_name"),
                   x |-> S("sum__SP_RUR_TOTL_ZS"),
                   y |-> S("sum__SP_DYN_LE00_IN"),
                   size |-> S("sum__SP_POP_TOTL"),
                   max_bubble_size |-> S("50"),
                   flt_col_1 |-> S("country_code"),
                   flt_op_1 |-> S("not in"),
                   flt_eq_1 |-> S("TCA,MNP,DMA,MHL,MCO,SXM,CYM,TUV,IMY,KNA,ASM,ADO,AMA,PLW"),
                   num_period_compare |-> S("10")]],
     [slice_name |-> "Rural Breakdown",
      viz_type |-> "sunburst",
      defaults |-> WbDefaults,
      params |-> [groupby |-> L(<<S("region"), S("country_name")>>),
                   secondary_metric |-> S("sum__SP_RUR_TOTL"),
                   since |-> S("2011-01-01"),
                   until |-> S("2011-01-01")]],
     [slice_name |-> "World's Pop Growth",
      viz_type |-> "area",
      defaults |-> WbDefaults,
      params |-> [since |-> S("1960-01-01"),
                   until |-> S("now"),
                   groupby |-> L(<<S("region")>>)]],
     [slice_name |-> "Box plot",
      viz_type |-> "box_plot",
      defaults |-> WbDefaults,
      params |-> [since |-> S("1960-01-01"),
                   until |-> S("now"),
                   whisker_options |-> S("Tukey"),
                   groupby |-> L(<<S("region")>>)]],
     [slice_name |-> "Treemap",
      viz_type |-> "treemap",
      defaults |-> WbDefaults,
      params |-> [since |-> S("1960-01-01"),
                   until |-> S("now"),
                   metrics |-> L(<<S("sum__SP_POP_TOTL")>>),
                   groupby |-> L(<<S("region"), S("country_code")>>)]],
     [slice_name |-> "Parallel Coordinates",
      viz_type |-> "para",
      defaults |-> WbDefaults,
      params |-> [since |-> S("2011-01-01"),
                   until |-> S("2011-01-01"),
                   limit |-> N(100),
                   metrics |-> L(<<S("sum__SP_POP_TOTL"), S("sum__SP_RUR_TOTL_ZS"), S("sum__SH_DYN_AIDS")>>),
                   secondary_metric |-> S("sum__SP_POP_TOTL"),
                   series |-> L(<<S("country_name")>>)]]
  >>

\* load_world_bank_health_n_pop: json.loads(js), the layout template (lines 410-484).
WbTemplate ==
  <<[size_y |-> N(2), size_x |-> N(3), col |-> N(10), slice_id |-> S("22"), row |-> N(1)],
    [size_y |-> N(3), size_x |-> N(3), col |-> N(10), slice_id |-> S("23"), row |-> N(3)],
    [size_y |-> N(8), size_x |-> N(3), col |-> N(1), slice_id |-> S("24"), row |-> N(1)],
    [size_y |-> N(3), size_x |-> N(6), col |-> N(4), slice_id |-> S("25"), row |-> N(6)],
    [size_y |-> N(5), size_x |-> N(6), col |-> N(4), slice_id |-> S("26"), row |-> N(1)],
    [size_y |-> N(4), size_x |-> N(6), col |-> N(7), slice_id |-> S("27"), row |-> N(9)],
    [size_y |-> N(3), size_x |-> N(3), col |-> N(10), slice_id |-> S("28"), row |-> N(6)],
    [size_y |-> N(4), size_x |-> N(6), col |-> N(1), slice_id |-> S("29"), row |-> N(9)],
    [size_y |-> N(4), size_x |-> N(5), col |-> N(8), slice_id |-> S("30"), row |-> N(13)],
    [size_y |-> N(4), size_x |-> N(7), col |-> N(1), slice_id |-> S("31"), row |-> N(13)]>>

\* load_birth_names: the dictionary `defaults` (lines 613-627).
BirthDefaults ==
    [compare_lag |-> S("10"),
     compare_suffix |-> S("o10Y"),
     flt_op_1 |-> S("in"),
     limit |-> S("25"),
     granularity |-> S("ds"),
     groupby |-> L(<<>>),
     metric |-> S("sum__num"),
     metrics |-> L(<<S("sum__num")>>),
     row_limit |-> Cfg("ROW_LIMIT"),
     since |-> S("100 years ago"),
     until |-> S("now"),
     where |-> S(""),
     markup_type |-> S("markdown")]

\* load_birth_names: the get_or_create_slice calls, in program order (lines 631-744).
BirthSlices ==
  <<
     [slice_name |-> "Girls",
      viz_type |-> "table",
      defaults |-> BirthDefaults,
      params |-> [groupby |-> L(<<S("name")>>),
                   flt_col_1 |-> S("gender"),
                   flt_eq_1 |-> S("girl"),
                   row_limit |-> N(50)]],
     [slice_name |-> "Boys",
      viz_type |-> "table",
      defaults |-> BirthDefaults,
      params |-> [groupby |-> L(<<S("name")>>),
                   flt_col_1 |-> S("gender"),
                   flt_eq_1 |-> S("boy"),
                   row_limit |-> N(50)]],
     [slice_name |-> "Participants",
      viz_type |-> "big_number",
      defaults |-> BirthDefaults,
      params |-> [granularity |-> S("ds"),
                   compare_lag |-> S("5"),
                   compare_suffix |-> S("over 5Y")]],
     [slice_name |-> "Genders",
      viz_type |-> "pie",
      defaults |-> BirthDefaults,
      params |-> [groupby |-> L(<<S("gender")>>)]],
     [slice_name |-> "Genders by State",
      viz_type |-> "dist_bar",
      defaults |-> BirthDefaults,
      params |-> [flt_eq_1 |-> S("other"),
                   metrics |-> L(<<S("sum__sum_girls"), S("sum__sum_boys")>>),
                   groupby |-> L(<<S("state")>>),
                   flt_op_1 |-> S("not in"),
                   flt_col_1 |-> S("state")]],
     [slice_name |-> "Trends",
      viz_type |-> "line",
      defaults |-> BirthDefaults,
      params |-> [groupby |-> L(<<S("name")>>),
                   granularity |-> S("ds"),
                   rich_tooltip |-> S("y"),
                   show_legend |-> S("y")]],
     [slice_name |-> "Title",
      viz_type |-> "markup",
      defaults |-> BirthDefaults,
      params |-> [markup_type |-> S("html"),
                   code |-> S("TITLE_HTML")]],
     [slice_name |-> "Name Cloud",
      viz_type |-> "word_cloud",
      defaults |-> BirthDefaults,
      params |-> [size_from |-> S("10"),
                   series |-> S("name"),
                   size_to |-> S("70"),
                   rotation |-> S("square"),
                   limit |-> S("100")]],
     [slice_name |-> "Pivot Table",
      viz_type |-> "pivot_table",
      defaults |-> BirthDefaults,
      params |-> [metrics |-> L(<<S("sum__num")>>),
                   groupby |-> L(<<S("name")>>),
                   columns |-> L(<<S("state")>>)]],
     [slice_name |-> "Number of Girls",
      viz_type |-> "big_number_total",
      defaults |-> BirthDefaults,
      params |-> [granularity |-> S("ds"),
                   flt_col_1 |-> S("gender"),
                   flt_eq_1 |-> S("girl"),
                   subheader |-> S("total female participants")]]
  >>

\* load_birth_names: json.loads(js), the layout template (lines 752-819).
BirthTemplate ==
  <<[size_y |-> N(4), size_x |-> N(2), col |-> N(8), slice_id |-> S("85"), row |-> N(7)],
    [size_y |-> N(4), size_x |-> N(2), col |-> N(10), slice_id |-> S("86"), row |-> N(7)],
    [size_y |-> N(2), size_x |-> N(2), col |-> N(1), slice_id |-> S("87"), row |-> N(1)],
    [size_y |-> N(2), size_x |-> N(2), col |-> N(3), slice_id |-> S("88"), row |-> N(1)],
    [size_y |-> N(3), size_x |-> N(7), col |-> N(5), slice_id |-> S("89"), row |-> N(4)],
    [size_y |-> N(4), size_x |-> N(7), col |-> N(1), slice_id |-> S("90"), row |-> N(7)],
    [size_y |-> N(3), size_x |-> N(3), col |-> N(9), slice_id |-> S("91"), row |-> N(1)],
    [size_y |-> N(3), size_x |-> N(4), col |-> N(5), slice_id |-> S("92"), row |-> N(1)],
    [size_y |-> N(4), size_x |-> N(4), col |-> N(1), slice_id |-> S("93"), row |-> N(3)]>>

\* load_unicode_test_data: the dictionary `slice_data` (lines 865-880).
UnicodeSliceData ==
    [flt_op_1 |-> S("in"),
     granularity |-> S("date"),
     groupby |-> L(<<>>),
     metric |-> S("sum__value"),
     row_limit |-> Cfg("ROW_LIMIT"),
     since |-> S("100 years ago"),
     until |-> S("now"),
     where |-> S(""),
     viz_type |-> S("word_cloud"),
     size_from |-> S("10"),
     series |-> S("short_phrase"),
     size_to |-> S("70"),
     rotation |-> S("square"),
     limit |-> S("100")]

\* load_unicode_test_data: the get_or_create_slice calls, in program order (lines 883-889).
UnicodeSlices ==
  <<
     [slice_name |-> "Unicode Cloud",
      viz_type |-> "word_cloud",
      defaults |-> EmptyDict,
      params |-> UnicodeSliceData]
  >>

\* load_random_time_series_data: the get_or_create_slice calls, in program order (lines 922-936).
RandomSlices ==
  <<
     [slice_name |-> "Calendar Heatmap",
      viz_type |-> "cal_heatmap",
      defaults |-> EmptyDict,
      params |-> [granularity |-> S("day"),
                   row_limit |-> Cfg("ROW_LIMIT"),
                   since |-> S("1 year ago"),
                   until |-> S("now"),
                   where |-> S(""),
                   domain_granularity |-> S("month"),
                   subdomain_granularity |-> S("day")]]
  >>

\* json.dumps(..., sort_keys=True) orders the keys of the dictionary; KeyOrder
\* lists every parameter key of this file in that (code point) order.
KeyOrder ==
  <<"all_columns_x", "all_columns_y", "canvas_image_rendering", "charge",
    "code", "collapsed_fieldsets", "columns", "compare_lag",
    "compare_suffix", "country_fieldtype", "datasource_id",
    "datasource_name", "datasource_type", "domain_granularity", "entity",
    "flt_col_0", "flt_col_1", "flt_eq_0", "flt_eq_1", "flt_op_0",
    "flt_op_1", "granularity", "groupby", "having", "limit",
    "linear_color_scheme", "link_length", "markup_type", "max_bubble_size",
    "metric", "metrics", "normalize_across", "num_period_compare",
    "rich_tooltip", "rotation", "row_limit", "secondary_metric", "series",
    "show_bubbles", "show_legend", "since", "size", "size_from", "size_to",
    "slice_id", "slice_name", "subdomain_granularity", "subheader",
    "until", "viz_type", "where", "whisker_options", "x",
    "xscale_interval", "y", "yscale_interval">>
\* ------------------------------------------------------------------------
\* Dictionaries and their serialisation.
\* ------------------------------------------------------------------------

\* p.update(q) as it would be if the values already in p were kept.
Update_KeepOld(p, q) ==
    [k \in DOMAIN p \cup DOMAIN q |-> IF k \in DOMAIN p THEN p[k] ELSE q[k]]

\* p.update(q): the keys of q are added to p, q wins on common keys.
Update(p, q) ==
    [k \in DOMAIN p \cup DOMAIN q |-> IF k \in DOMAIN q THEN q[k] ELSE p[k]]

\* p[key] = value
SetItem(p, key, value) == Update(p, [k \in {key} |-> value])

\* json.dumps(p, indent=4, sort_keys=True): the members of p, as <<key, value>>
\* pairs, in the order of their keys.
dumps(p) ==
    LET ks == SelectSeq(KeyOrder, LAMBDA k : k \in DOMAIN p)
    IN  [i \in 1..Len(ks) |-> <<ks[i], p[ks[i]]>>]

\* The keys of a serialised dictionary.
BlobKeys(blob) == {blob[i][1] : i \in DOMAIN blob}

\* The values a serialised dictionary holds under a key.
BlobValues(blob, key) == {blob[i][2] : i \in {j \in DOMAIN blob : blob[j][1] = key}}

\* The name as it would be without the suffix for search-cluster datasources.
EffectiveName_Plain(slice_name, datasource) == slice_name

\* The name a slice is stored under: get_or_create_slice appends ' (ES)' when
\* the datasource is a search-cluster datasource.
EffectiveName(slice_name, datasource) ==
    IF datasource.type = "elasticsearch" THEN slice_name \o " (ES)" ELSE slice_name

\* The dictionary p that get_or_create_slice serialises.
SliceParams(slice_name, viz_type, datasource, defaults, params) ==
    LET p0 == defaults
        p1 == SetItem(p0, "slice_name", S(EffectiveName(slice_name, datasource)))
        p2 == SetItem(p1, "viz_type", S(viz_type))
        p3 == SetItem(p2, "datasource_type", S(datasource.type))
        p4 == SetItem(p3, "datasource_id", N(datasource.id))
        p5 == SetItem(p4, "datasource_name", S(datasource.name))
    IN  Update(p5, params)

\* ------------------------------------------------------------------------
\* The loaders and the arguments they pass to import_data.
\* ------------------------------------------------------------------------

\* The loaders that call import_data.
ImportLoaders ==
    {"load_energy", "load_world_bank_health_n_pop", "load_birth_names",
     "load_random_time_series_data"}

Loaders == ImportLoaders \cup {"load_unicode_test_data", "load_css_templates"}

\* file_name, table_name and description of the import_data call of a loader.
ImportArgs(loader) ==
    CASE loader = "load_energy" ->
           [file_name |-> "energy.json.gz", table_name |-> "energy_usage",
            description |-> "Energy consumption"]
      [] loader = "load_world_bank_health_n_pop" ->
           [file_name |-> "countries.json.gz", table_name |-> "wb_health_population",
            description |-> "countries.md"]
      [] loader = "load_birth_names" ->
           [file_name |-> "birth_names.json.gz", table_name |-> "birth_names",
            description |-> ""]
      [] loader = "load_random_time_series_data" ->
           [file_name |-> "random_time_series.json.gz",
            table_name |-> "random_time_series",
            description |-> "Random time series"]

\* The get_or_create_slice calls of a loader, in program order.
SlicesOf(loader) ==
    CASE loader = "load_energy" -> EnergySlices
      [] loader = "load_world_bank_health_n_pop" -> WbSlices
      [] loader = "load_birth_names" -> BirthSlices
      [] loader = "load_unicode_test_data" -> UnicodeSlices
      [] loader = "load_random_time_series_data" -> RandomSlices
      [] loader = "load_css_templates" -> <<>>

\* The loaders that go on to write a dashboard.
DashLoaders ==
    {"load_world_bank_health_n_pop", "load_birth_names", "load_unicode_test_data"}

\* The rows of a packaged data file.
FileRows(file_name) == <<<<file_name, 1>>, <<file_name, 2>>>>

\* The values of config SQLALCHEMY_DATABASE_URI an invocation may run under.
Uris == {"sqlite:////tmp/caravel.db", "mysql://caravel@db/caravel"}

\* The url list the search cluster record is created with.
EsUrls == <<"http://localhost:9200">>

\* The values random.randint(1, 100) is drawn from in the model.
RandomValues == {1, 100}

\* ------------------------------------------------------------------------
\* State.
\* ------------------------------------------------------------------------

VARIABLES
    store,      \* the metadata database: one set of records per ORM model
    engine,     \* the relational data tables written by to_sql, by table name
    es,         \* the indices of the search cluster, by index name
    seq,        \* the autoincrement counter of each kind of record
    config,     \* config.get("SQLALCHEMY_DATABASE_URI")
    run,        \* the loader invocation in progress
    hist        \* history of the invocations (not program state)

vars == <<store, engine, es, seq, config, run, hist>>

\* No loader is running.
Idle == [pc |-> "idle", loader |-> None, es |-> FALSE,
         ds |-> [type |-> None, id |-> 0, name |-> None], slices |-> <<>>]

\* The arguments of an invocation; NoArgs when there is none.
NoArgs == [loader |-> None, es |-> FALSE, uri |-> None]

Args(r, uri) == [loader |-> r.loader, es |-> r.es, uri |-> uri]

EmptyStore ==
    [dbs |-> {}, clusters |-> {}, tables |-> {}, datasources |-> {},
     slices |-> {}, dashboards |-> {}, css |-> {}]

EmptyFcn == [k \in {} |-> None]

Init ==
    /\ store = EmptyStore
    /\ engine = EmptyFcn
    /\ es = EmptyFcn
    /\ seq = [dbs |-> 0, clusters |-> 0, tables |-> 0, datasources |-> 0,
              slices |-> 0, dashboards |-> 0, css |-> 0, loads |-> 0]
    /\ config = None
    /\ run = Idle
    /\ hist = [runs |-> 0, aborts |-> 0, calls |-> 0,
               prev |-> NoArgs, last |-> NoArgs, pending |-> NoArgs,
               rerun |-> FALSE, recovered |-> FALSE, raised |-> FALSE,
               returned |-> FALSE,
               start |-> [store |-> EmptyStore, engine |-> EmptyFcn, es |-> EmptyFcn],
               startseq |-> [dbs |-> 0, clusters |-> 0, tables |-> 0, datasources |-> 0,
                             slices |-> 0, dashboards |-> 0, css |-> 0, loads |-> 0],
               failedat |-> Idle,
               call |-> [k \in {} |-> None]]

\* f with f[k] = v
Put(f, k, v) == [x \in DOMAIN f \cup {k} |-> IF x = k THEN v ELSE f[x]]

\* f without the key k
Drop(f, k) == [x \in DOMAIN f \ {k} |-> f[x]]

\* first() as it would be if the look-up never found a record.
First_Nothing(matching) == {0}

\* query(...).filter_by(...).first(): one of the matching records, or no
\* record (id 0) when nothing matches.
First(matching) == IF matching = {} THEN {0} ELSE {r.id : r \in matching}

\* The record of a set with the given id.
ById(records, id) == CHOOSE r \in records : r.id = id

\* session.add / session.merge followed by commit: the record replaces the
\* persisted record of the same id.
Persist(records, rec) == {r \in records : r.id # rec.id} \cup {rec}

\* The step a loader starts with.
FirstPc(loader, e) ==
    CASE loader = "load_css_templates" -> "css_flat"
      [] loader = "load_unicode_test_data" -> "u_to_sql"
      [] loader \in ImportLoaders /\ e -> "es_delete"
      [] loader \in ImportLoaders /\ ~e -> "to_sql"

\* The step that follows the last get_or_create_slice call of a loader.
AfterSlices(loader) ==
    CASE loader = "load_world_bank_health_n_pop" -> "wb_dash"
      [] loader = "load_birth_names" -> "birth_dash"
      [] loader = "load_unicode_test_data" -> "u_dash"
      [] OTHER -> "idle"

\* The loader returned: the invocation is recorded in the history.
Finished(h, r, uri) ==
    [h EXCEPT !.prev = IF h.rerun THEN NoArgs ELSE h.last,
              !.last = Args(r, uri),
              !.recovered = h.rerun,
              !.returned = TRUE,
              !.rerun = FALSE,
              !.pending = NoArgs]

\* A loader is invoked, under some configuration.  A loader is given a search
\* cluster handle only when the cluster record exists, and only the loaders
\* that pass the handle on to import_data are given one (load_css_templates
\* and load_unicode_test_data never read their es_cluster argument).  After a
\* failed invocation the same loader is run again with the same arguments.
StartRun(loader, e, uri) ==
    /\ run.pc = "idle"
    /\ hist.runs < MaxRuns
    /\ e => store.clusters # {} /\ loader \in ImportLoaders
    /\ hist.pending # NoArgs => hist.pending = [loader |-> loader, es |-> e, uri |-> uri]
    /\ config' = uri
    /\ run' = [Idle EXCEPT !.pc = FirstPc(loader, e), !.loader = loader, !.es = e]
    /\ hist' = [hist EXCEPT !.runs = @ + 1,
                            !.prev = NoArgs,
                            !.rerun = hist.pending # NoArgs,
                            !.recovered = FALSE,
                            !.returned = FALSE,
                            !.start = IF hist.pending # NoArgs THEN @
                                      ELSE [store |-> store, engine |-> engine, es |-> es],
                            !.startseq = seq]
    /\ UNCHANGED <<store, engine, es, seq>>

\* get_or_create_elasticsearch_cluster(urls), called by whoever invokes a
\* loader with a search cluster handle.
get_or_create_elasticsearch_cluster(urls) ==
    /\ run.pc = "idle"
    /\ hist.pending = NoArgs
    /\ \E id \in First({c \in store.clusters : c.cluster_name = "ElasticSearch examples"}) :
          LET new == id = 0
              clusterobj == [id |-> IF new THEN seq.clusters + 1 ELSE id,
                             cluster_name |-> "ElasticSearch examples",
                             urls |-> urls]
          IN  /\ store' = [store EXCEPT !.clusters = Persist(@, clusterobj)]
              /\ seq' = [seq EXCEPT !.clusters = IF new THEN @ + 1 ELSE @]
    /\ hist' = [hist EXCEPT !.returned = FALSE]
    /\ UNCHANGED <<engine, es, config, run>>

\* ------------------------------------------------------------------------
\* get_or_create_db
\* ------------------------------------------------------------------------

\* The store after get_or_create_db(session): the record named 'main' is
\* looked up, created when absent, given the configured uri and committed.
\* `id` is the outcome of the look-up.
get_or_create_db(st, sq, id, uri) ==
    LET dbobj == [id |-> IF id = 0 THEN sq.dbs + 1 ELSE id,
                  database_name |-> "main",
                  sqlalchemy_uri |-> uri]
    IN  [st EXCEPT !.dbs = Persist(@, dbobj)]

\* ------------------------------------------------------------------------
\* import_data
\* ------------------------------------------------------------------------

\* The index name import_data derives from the table name.
DsName(table_name) == "example-" \o table_name

\* The conversion import_data applies to the date column of a table.
DateCoercion(table_name) ==
    CASE table_name = "birth_names" -> [column |-> "ds", unit |-> "ms"]
      [] table_name = "wb_health_population" -> [column |-> "year", unit |-> None]
      [] table_name = "random_time_series" -> [column |-> "ds", unit |-> "s"]
      [] OTHER -> [column |-> None, unit |-> None]

\* main_dttm_col as import_data leaves it on a relational dataset record.
TblDttmCol(table_name, old) ==
    CASE table_name = "birth_names" -> "ds"
      [] table_name = "wb_health_population" -> "year"
      [] table_name = "random_time_series" -> "ds"
      [] OTHER -> old

\* main_dttm_col as import_data leaves it on a search-cluster dataset record.
EsDttmCol(table_name, old) ==
    CASE table_name = "birth_names" -> "ds"
      [] table_name = "wb_health_population" -> "year"
      [] OTHER -> old

\* is_featured as import_data leaves it on a relational dataset record.
TblFeatured(table_name) == table_name # "random_time_series"

\* import_data as it would be without the deletion of the index.
EsIndicesDelete_Skip ==
    /\ run.pc = "es_delete"
    /\ run' = [run EXCEPT !.pc = "es_bulk"]
    /\ UNCHANGED <<store, engine, es, seq, config, hist>>

\* import_data as it would be without ignore=404: the deletion of an index
\* that does not exist raises, and the loader ends there.
EsIndicesDelete_NoIgnore ==
    /\ run.pc = "es_delete"
    /\ IF DsName(ImportArgs(run.loader).table_name) \in DOMAIN es
       THEN /\ es' = Drop(es, DsName(ImportArgs(run.loader).table_name))
            /\ run' = [run EXCEPT !.pc = "es_bulk"]
            /\ UNCHANGED hist
       ELSE /\ run' = Idle
            /\ hist' = [hist EXCEPT !.raised = TRUE, !.prev = NoArgs, !.last = NoArgs]
            /\ UNCHANGED es
    /\ UNCHANGED <<store, engine, seq, config>>

\* Search cluster path: es.indices.delete(index=ds_name, ignore=404).
EsIndicesDelete ==
    /\ run.pc = "es_delete"
    /\ es' = Drop(es, DsName(ImportArgs(run.loader).table_name))
    /\ run' = [run EXCEPT !.pc = "es_bulk"]
    /\ UNCHANGED <<store, engine, seq, config, hist>>

\* Search cluster path: es.bulk(index=ds_name, doc_type=table_name, body=body)
\* indexes every row of the file as a new document of the index.
EsBulk ==
    /\ run.pc = "es_bulk"
    /\ LET a == ImportArgs(run.loader)
           ds_name == DsName(a.table_name)
           old == IF ds_name \in DOMAIN es THEN es[ds_name].docs ELSE <<>>
           data == FileRows(a.file_name)
           body == [i \in 1..Len(data) |-> [doc_type |-> a.table_name, source |-> data[i]]]
       IN  es' = Put(es, ds_name, [docs |-> old \o body, load |-> seq.loads + 1])
    /\ seq' = [seq EXCEPT !.loads = @ + 1]
    /\ run' = [run EXCEPT !.pc = "es_upsert"]
    /\ UNCHANGED <<store, engine, config, hist>>

\* Search cluster path: the dataset record is looked up by name, created when
\* absent, filled in, merged and committed.
EsDatasourceUpsert ==
    /\ run.pc = "es_upsert"
    /\ LET a == ImportArgs(run.loader)
           ds_name == DsName(a.table_name)
       IN  \E id \in First({d \in store.datasources : d.datasource_name = ds_name}) :
             \E es_cluster \in store.clusters :
               LET new == id = 0
                   old == IF new
                          THEN [main_dttm_col |-> None, fields |-> 0, metrics |-> 0]
                          ELSE ById(store.datasources, id)
                   ds == [id |-> IF new THEN seq.datasources + 1 ELSE id,
                          datasource_name |-> ds_name,
                          main_dttm_col |-> EsDttmCol(a.table_name, old.main_dttm_col),
                          cluster |-> es_cluster.id,
                          index_name |-> ds_name,
                          description |-> a.description,
                          is_featured |-> TRUE,
                          fields |-> old.fields,
                          metrics |-> old.metrics]
               IN  /\ store' = [store EXCEPT !.datasources = Persist(@, ds)]
                   /\ seq' = [seq EXCEPT !.datasources = IF new THEN @ + 1 ELSE @]
                   /\ run' = [run EXCEPT !.pc = "es_refresh_fields",
                                         !.ds = [type |-> "elasticsearch",
                                                 id |-> ds.id, name |-> ds_name]]
    /\ UNCHANGED <<engine, es, config, hist>>

\* The metadata layer.  ds.fetch_metadata() derives the columns of a dataset
\* record from its table, ds.refresh_fields() the fields from its index,
\* ds.generate_metrics() the metrics from the fields.  What is derived is
\* identified by the load of the data it was derived from.
fetch_metadata(ds, table) == [ds EXCEPT !.columns = table.load]

refresh_fields(ds, index) == [ds EXCEPT !.fields = index.load]

generate_metrics(ds) == [ds EXCEPT !.metrics = ds.fields]

\* Search cluster path: ds.refresh_fields() derives the fields of the
\* dataset record from the index as it is now.
EsRefreshFields ==
    /\ run.pc = "es_refresh_fields"
    /\ LET ds == ById(store.datasources, run.ds.id)
       IN  store' = [store EXCEPT !.datasources =
                        Persist(@, refresh_fields(ds, es[ds.index_name]))]
    /\ run' = [run EXCEPT !.pc = "es_generate_metrics"]
    /\ UNCHANGED <<engine, es, seq, config, hist>>

\* Search cluster path: ds.generate_metrics() derives the metrics from the
\* fields; import_data then returns ds.
EsGenerateMetrics ==
    /\ run.pc = "es_generate_metrics"
    /\ LET ds == ById(store.datasources, run.ds.id)
       IN  store' = [store EXCEPT !.datasources =
                        Persist(@, generate_metrics(ds))]
    /\ run' = [run EXCEPT !.pc = "slices"]
    /\ UNCHANGED <<engine, es, seq, config, hist>>

\* Relational path: the file is read, its date column converted and the table
\* written with if_exists='replace'.
ToSql ==
    /\ run.pc = "to_sql"
    /\ LET a == ImportArgs(run.loader)
           data == FileRows(a.file_name)
           pdf == [i \in 1..Len(data) |->
                      [row |-> data[i], to_datetime |-> DateCoercion(a.table_name)]]
       IN  engine' = Put(engine, a.table_name, [rows |-> pdf, load |-> seq.loads + 1])
    /\ seq' = [seq EXCEPT !.loads = @ + 1]
    /\ run' = [run EXCEPT !.pc = "tbl_lookup"]
    /\ UNCHANGED <<store, es, config, hist>>

\* Relational path: the dataset record is looked up by table name (created,
\* not yet persisted, when absent), is_featured and main_dttm_col are set, and
\* get_or_create_db commits the session: the 'main' connection record, and
\* the two fields just set when the dataset record was found.
TblLookup ==
    /\ run.pc = "tbl_lookup"
    /\ LET a == ImportArgs(run.loader)
       IN  \E id \in First({t \in store.tables : t.table_name = a.table_name}) :
             \E dbid \in First({d \in store.dbs : d.database_name = "main"}) :
               LET st1 == get_or_create_db(store, seq, dbid, config)
                   st2 == IF id = 0 THEN st1
                          ELSE [st1 EXCEPT !.tables =
                                  Persist(@, [ById(store.tables, id) EXCEPT
                                      !.is_featured = TblFeatured(a.table_name),
                                      !.main_dttm_col = TblDttmCol(a.table_name, @)])]
               IN  /\ store' = st2
                   /\ seq' = [seq EXCEPT !.dbs = IF dbid = 0 THEN @ + 1 ELSE @]
                   /\ run' = [run EXCEPT !.pc = "tbl_commit",
                                         !.ds = [type |-> "table", id |-> id,
                                                 name |-> a.table_name]]
    /\ UNCHANGED <<engine, es, config, hist>>

\* Relational path: database and description are set, the dataset record is
\* merged and committed.
TblCommit ==
    /\ run.pc = "tbl_commit"
    /\ LET a == ImportArgs(run.loader)
           new == run.ds.id = 0
           old == IF new THEN [main_dttm_col |-> None, columns |-> 0]
                  ELSE ById(store.tables, run.ds.id)
           dbobj == CHOOSE d \in store.dbs : d.database_name = "main"
           ds == [id |-> IF new THEN seq.tables + 1 ELSE run.ds.id,
                  table_name |-> a.table_name,
                  is_featured |-> TblFeatured(a.table_name),
                  main_dttm_col |-> TblDttmCol(a.table_name, old.main_dttm_col),
                  database |-> dbobj.id,
                  description |-> a.description,
                  columns |-> old.columns]
       IN  /\ store' = [store EXCEPT !.tables = Persist(@, ds)]
           /\ seq' = [seq EXCEPT !.tables = IF new THEN @ + 1 ELSE @]
           /\ run' = [run EXCEPT !.pc = "fetch_metadata", !.ds.id = ds.id]
    /\ UNCHANGED <<engine, es, config, hist>>

\* import_data as it would be without the call of ds.fetch_metadata().
FetchMetadata_Skip ==
    /\ run.pc = "fetch_metadata"
    /\ run' = [run EXCEPT !.pc = "slices"]
    /\ UNCHANGED <<store, engine, es, seq, config, hist>>

\* Relational path: ds.fetch_metadata() derives the columns of the dataset
\* record from the table as it is now; import_data then returns ds.
FetchMetadata ==
    /\ run.pc = "fetch_metadata"
    /\ LET ds == ById(store.tables, run.ds.id)
       IN  store' = [store EXCEPT !.tables =
                        Persist(@, fetch_metadata(ds, engine[ds.table_name]))]
    /\ run' = [run EXCEPT !.pc = "slices"]
    /\ UNCHANGED <<engine, es, seq, config, hist>>

\* ------------------------------------------------------------------------
\* get_or_create_slice
\* ------------------------------------------------------------------------

\* session.delete(o) as it would be if the slice were kept.
DeleteSlice_Keep(st, id) == st

\* session.delete(o) for a slice: the slice goes, and with it its rows of
\* the dashboard membership table.
DeleteSlice(st, id) ==
    [st EXCEPT !.slices = {s \in @ : s.id # id},
               !.dashboards = {[d EXCEPT !.slices = SelectSeq(@, LAMBDA m : m # id)]
                                 : d \in @}]

\* The Slice object get_or_create_slice builds, under the identifier the
\* commit assigns to it.
NewSlice(id, slice_name, viz_type, datasource, defaults, params) ==
    [id |-> id,
     slice_name |-> EffectiveName(slice_name, datasource),
     viz_type |-> viz_type,
     datasource_type |-> datasource.type,
     table |-> IF datasource.type = "elasticsearch" THEN 0 ELSE datasource.id,
     elasticsearch_datasource |->
         IF datasource.type = "elasticsearch" THEN datasource.id ELSE 0,
     params |-> dumps(SliceParams(slice_name, viz_type, datasource, defaults, params))]

\* get_or_create_slice as it would be without the deletion of the slice found.
get_or_create_slice_NoDelete(st, sq, o, slice_name, viz_type, datasource, defaults, params) ==
    LET slc == [id |-> sq.slices + 1,
                slice_name |-> EffectiveName(slice_name, datasource),
                viz_type |-> viz_type,
                datasource_type |-> datasource.type,
                table |-> IF datasource.type = "elasticsearch" THEN 0 ELSE datasource.id,
                elasticsearch_datasource |->
                    IF datasource.type = "elasticsearch" THEN datasource.id ELSE 0,
                params |-> dumps(SliceParams(slice_name, viz_type, datasource,
                                             defaults, params))]
    IN  [st EXCEPT !.slices = @ \cup {slc}]

\* The store after get_or_create_slice: `o` is the outcome of the look-up by
\* name (0 when no slice has the name); the slice found is deleted, the new
\* one added, and both changes are committed together.
get_or_create_slice(st, sq, o, slice_name, viz_type, datasource, defaults, params) ==
    LET st1 == IF o # 0 THEN DeleteSlice(st, o) ELSE st
        slc == NewSlice(sq.slices + 1, slice_name, viz_type, datasource, defaults, params)
    IN  [st1 EXCEPT !.slices = @ \cup {slc}]

\* The look-up of get_or_create_slice as it would be if it matched nothing.
SlicesNamed_None(st, name) == {}

\* The look-up of get_or_create_slice as it would be if it matched every
\* slice, whatever its name.
SlicesNamed_Any(st, name) == st.slices

\* The slices the look-up of get_or_create_slice matches.
SlicesNamed(st, name) == {s \in st.slices : s.slice_name = name}

\* A loader makes its next get_or_create_slice call and appends the slice
\* returned to its list; after the last call it goes on to its dashboard, or
\* returns when it has none.
CreateSlice ==
    /\ run.pc = "slices"
    /\ LET calls == SlicesOf(run.loader)
           i == Len(run.slices) + 1
           c == calls[i]
           last == i = Len(calls)
           next == IF last THEN AfterSlices(run.loader) ELSE "slices"
       IN  \E o \in First(SlicesNamed(store, EffectiveName(c.slice_name, run.ds))) :
             /\ store' = get_or_create_slice(store, seq, o, c.slice_name, c.viz_type,
                                               run.ds, c.defaults, c.params)
             /\ seq' = [seq EXCEPT !.slices = @ + 1]
             /\ IF next = "idle"
                THEN /\ run' = Idle
                     /\ hist' = Finished(hist, run, config)
                ELSE /\ run' = [run EXCEPT !.pc = next, !.slices = Append(@, seq.slices + 1)]
                     /\ UNCHANGED hist
    /\ UNCHANGED <<engine, es, config>>

\* ------------------------------------------------------------------------
\* Dashboards
\* ------------------------------------------------------------------------

\* The rewrite as it would be if every slot were given the first slice.
Rewrite_First(l, slices) ==
    [i \in 1..Len(l) |-> [l[i] EXCEPT !.slice_id = Str(slices[1])]]

\* The rewrite as it would be if slot i were given the slice after the i-th.
Rewrite_Shifted(l, slices) ==
    [i \in 1..Len(l) |-> [l[i] EXCEPT !.slice_id = Str(slices[i + 1])]]

\* for i, pos in enumerate(l): pos['slice_id'] = str(slices[i].id)
Rewrite(l, slices) ==
    [i \in 1..Len(l) |-> [l[i] EXCEPT !.slice_id = Str(slices[i])]]

\* The membership as it would be with slices instead of slices[:-1].
AllButLast_All(slices) == slices

\* The membership as it would be with slices[1:] instead of slices[:-1].
AllButLast_First(slices) == SubSeq(slices, 2, Len(slices))

\* slices[:-1]
AllButLast(slices) == SubSeq(slices, 1, Len(slices) - 1)

\* The upsert as it would be if a dashboard that was found kept the layout it
\* had.
DashUpsert_KeepLayout(st, sq, id, title, slug, position_json, members) ==
    LET dash == [id |-> IF id = 0 THEN sq.dashboards + 1 ELSE id,
                 dashboard_title |-> title,
                 slug |-> slug,
                 position_json |-> IF id = 0 THEN position_json
                                   ELSE ById(st.dashboards, id).position_json,
                 slices |-> members]
    IN  [st EXCEPT !.dashboards = Persist(@, dash)]

\* The store after a dashboard is given its fields, merged and committed;
\* `id` is the outcome of the look-up (0 when no dashboard was found).
DashUpsert(st, sq, id, title, slug, position_json, members) ==
    LET dash == [id |-> IF id = 0 THEN sq.dashboards + 1 ELSE id,
                 dashboard_title |-> title,
                 slug |-> slug,
                 position_json |-> position_json,
                 slices |-> members]
    IN  [st EXCEPT !.dashboards = Persist(@, dash)]

\* The loader raised: nothing more is written.
Raise ==
    /\ run' = Idle
    /\ hist' = [hist EXCEPT !.raised = TRUE, !.prev = NoArgs, !.last = NoArgs]
    /\ UNCHANGED <<store, engine, es, seq, config>>

\* load_world_bank_health_n_pop: the dashboard is looked up by slug, the
\* template rewritten with the identifiers of the slices, membership set to
\* all slices but the last.
WbDashboard ==
    /\ run.pc = "wb_dash"
    /\ IF Len(WbTemplate) > Len(run.slices)
       THEN Raise
       ELSE \E id \in First({d \in store.dashboards : d.slug = "world_health"}) :
              /\ store' = DashUpsert(store, seq, id, "World's Bank Data", "world_health",
                                     Rewrite(WbTemplate, run.slices),
                                     AllButLast(run.slices))
              /\ seq' = [seq EXCEPT !.dashboards = IF id = 0 THEN @ + 1 ELSE @]
              /\ run' = Idle
              /\ hist' = Finished(hist, run, config)
              /\ UNCHANGED <<engine, es, config>>

\* load_birth_names: the dashboard is looked up by title, the template
\* rewritten with the identifiers of the slices, membership set to all slices
\* but the last.
BirthDashboard ==
    /\ run.pc = "birth_dash"
    /\ IF Len(BirthTemplate) > Len(run.slices)
       THEN Raise
       ELSE \E id \in First({d \in store.dashboards : d.dashboard_title = "Births"}) :
              /\ store' = DashUpsert(store, seq, id, "Births", "births",
                                     Rewrite(BirthTemplate, run.slices),
                                     AllButLast(run.slices))
              /\ seq' = [seq EXCEPT !.dashboards = IF id = 0 THEN @ + 1 ELSE @]
              /\ run' = Idle
              /\ hist' = Finished(hist, run, config)
              /\ UNCHANGED <<engine, es, config>>

\* ------------------------------------------------------------------------
\* load_unicode_test_data
\* ------------------------------------------------------------------------

\* The csv file is read, a date and a random value column are added and the
\* table 'unicode_test' is written with if_exists='replace'.
UnicodeToSql ==
    /\ run.pc = "u_to_sql"
    /\ \E value \in RandomValues :
         LET data == FileRows("unicode_utf8_unixnl_test.csv")
             df == [i \in 1..Len(data) |-> [row |-> data[i], value |-> value]]
         IN  engine' = Put(engine, "unicode_test", [rows |-> df, load |-> seq.loads + 1])
    /\ seq' = [seq EXCEPT !.loads = @ + 1]
    /\ run' = [run EXCEPT !.pc = "u_lookup"]
    /\ UNCHANGED <<store, es, config, hist>>

\* The dataset record is looked up by table name (created, not yet
\* persisted, when absent), main_dttm_col is set, and get_or_create_db commits
\* the session: the 'main' connection record, and the field just set when the
\* dataset record was found.
UnicodeLookup ==
    /\ run.pc = "u_lookup"
    /\ \E id \in First({t \in store.tables : t.table_name = "unicode_test"}) :
         \E dbid \in First({d \in store.dbs : d.database_name = "main"}) :
           LET st1 == get_or_create_db(store, seq, dbid, config)
               st2 == IF id = 0 THEN st1
                      ELSE [st1 EXCEPT !.tables =
                              Persist(@, [ById(store.tables, id) EXCEPT
                                              !.main_dttm_col = "date"])]
           IN  /\ store' = st2
               /\ seq' = [seq EXCEPT !.dbs = IF dbid = 0 THEN @ + 1 ELSE @]
               /\ run' = [run EXCEPT !.pc = "u_commit",
                                     !.ds = [type |-> "table", id |-> id,
                                             name |-> "unicode_test"]]
    /\ UNCHANGED <<engine, es, config, hist>>

\* database and is_featured are set, the dataset record is merged and
\* committed.
UnicodeCommit ==
    /\ run.pc = "u_commit"
    /\ LET new == run.ds.id = 0
           old == IF new THEN [description |-> None, columns |-> 0]
                  ELSE ById(store.tables, run.ds.id)
           dbobj == CHOOSE d \in store.dbs : d.database_name = "main"
           obj == [id |-> IF new THEN seq.tables + 1 ELSE run.ds.id,
                   table_name |-> "unicode_test",
                   is_featured |-> FALSE,
                   main_dttm_col |-> "date",
                   database |-> dbobj.id,
                   description |-> old.description,
                   columns |-> old.columns]
       IN  /\ store' = [store EXCEPT !.tables = Persist(@, obj)]
           /\ seq' = [seq EXCEPT !.tables = IF new THEN @ + 1 ELSE @]
           /\ run' = [run EXCEPT !.pc = "u_fetch_metadata", !.ds.id = obj.id]
    /\ UNCHANGED <<engine, es, config, hist>>

\* obj.fetch_metadata()
UnicodeFetchMetadata ==
    /\ run.pc = "u_fetch_metadata"
    /\ LET obj == ById(store.tables, run.ds.id)
       IN  store' = [store EXCEPT !.tables =
                        Persist(@, fetch_metadata(obj, engine[obj.table_name]))]
    /\ run' = [run EXCEPT !.pc = "slices"]
    /\ UNCHANGED <<engine, es, seq, config, hist>>

\* The dashboard is looked up by title; its layout is the one position of the
\* slice, its membership the slice.
UnicodeDashboard ==
    /\ run.pc = "u_dash"
    /\ \E id \in First({d \in store.dashboards : d.dashboard_title = "Unicode Test"}) :
         LET slc == run.slices[1]
             pos == [size_y |-> N(4), size_x |-> N(4), col |-> N(1), row |-> N(1),
                     slice_id |-> N(slc)]
         IN  /\ store' = DashUpsert(store, seq, id, "Unicode Test", "unicode-test",
                                    <<pos>>, <<slc>>)
             /\ seq' = [seq EXCEPT !.dashboards = IF id = 0 THEN @ + 1 ELSE @]
    /\ run' = Idle
    /\ hist' = Finished(hist, run, config)
    /\ UNCHANGED <<engine, es, config>>

\* ------------------------------------------------------------------------
\* load_css_templates
\* ------------------------------------------------------------------------

\* The store after a CSS template is looked up by name, created when absent,
\* given its css, merged and committed.
CssUpsert(st, sq, id, template_name, css) ==
    LET obj == [id |-> IF id = 0 THEN sq.css + 1 ELSE id,
                template_name |-> template_name,
                css |-> css]
    IN  [st EXCEPT !.css = Persist(@, obj)]

\* The template 'Flat'.
CssFlat ==
    /\ run.pc = "css_flat"
    /\ \E id \in First({t \in store.css : t.template_name = "Flat"}) :
         /\ store' = CssUpsert(store, seq, id, "Flat", "FLAT_CSS")
         /\ seq' = [seq EXCEPT !.css = IF id = 0 THEN @ + 1 ELSE @]
    /\ run' = [run EXCEPT !.pc = "css_courier"]
    /\ UNCHANGED <<engine, es, config, hist>>

\* The template 'Courier Black'; the loader returns.
CssCourier ==
    /\ run.pc = "css_courier"
    /\ \E id \in First({t \in store.css : t.template_name = "Courier Black"}) :
         /\ store' = CssUpsert(store, seq, id, "Courier Black", "COURIER_BLACK_CSS")
         /\ seq' = [seq EXCEPT !.css = IF id = 0 THEN @ + 1 ELSE @]
    /\ run' = Idle
    /\ hist' = Finished(hist, run, config)
    /\ UNCHANGED <<engine, es, config>>

\* ------------------------------------------------------------------------
\* Specifications
\* ------------------------------------------------------------------------

\* One step of the loader in progress.
Step ==
    \/ EsIndicesDelete
    \/ EsBulk
    \/ EsDatasourceUpsert
    \/ EsRefreshFields
    \/ EsGenerateMetrics
    \/ ToSql
    \/ TblLookup
    \/ TblCommit
    \/ FetchMetadata
    \/ CreateSlice
    \/ WbDashboard
    \/ BirthDashboard
    \/ UnicodeToSql
    \/ UnicodeLookup
    \/ UnicodeCommit
    \/ UnicodeFetchMetadata
    \/ UnicodeDashboard
    \/ CssFlat
    \/ CssCourier

\* Loaders are invoked one at a time and run to completion.
Next ==
    \/ \E loader \in Loaders, e \in BOOLEAN, uri \in Uris : StartRun(loader, e, uri)
    \/ get_or_create_elasticsearch_cluster(EsUrls)
    \/ Step

Spec == Init /\ [][Next]_vars

\* The arguments get_or_create_slice is called with in SpecSlice.
CallNames == {"Girls", "Boys"}

CallVizTypes == {"table", "pie"}

CallDatasources ==
    {[type |-> "table", id |-> 1, name |-> "birth_names"],
     [type |-> "elasticsearch", id |-> 1, name |-> "example-birth_names"]}

CallDefaults == {EmptyDict, [metric |-> S("sum__num"), limit |-> S("25")]}

CallParams == {[limit |-> N(100)], [groupby |-> L(<<S("name")>>), viz_type |-> S("line")]}

\* get_or_create_slice(slice_name, viz_type, datasource, defaults, params),
\* called on its own.
SliceCall(slice_name, viz_type, datasource, defaults, params) ==
    /\ run.pc = "idle"
    /\ hist.calls < MaxCalls
    /\ \E o \in First(SlicesNamed(store, EffectiveName(slice_name, datasource))) :
         /\ store' = get_or_create_slice(store, seq, o, slice_name, viz_type,
                                           datasource, defaults, params)
         /\ hist' = [hist EXCEPT
                !.calls = @ + 1,
                !.call = Put(@, EffectiveName(slice_name, datasource),
                             [viz_type |-> viz_type, datasource |-> datasource,
                              defaults |-> defaults, params |-> params,
                              found |-> o,
                              before |-> IF o = 0 THEN <<>>
                                         ELSE ById(store.slices, o).params])]
    /\ seq' = [seq EXCEPT !.slices = @ + 1]
    /\ UNCHANGED <<engine, es, config, run>>

\* Any sequence of get_or_create_slice calls.
NextSlice ==
    \E slice_name \in CallNames, viz_type \in CallVizTypes,
       datasource \in CallDatasources, defaults \in CallDefaults,
       params \in CallParams :
        SliceCall(slice_name, viz_type, datasource, defaults, params)

SpecSlice == Init /\ [][NextSlice]_vars

\* A storage or parsing failure: the loader raises at the step it has reached,
\* what it has committed stays.
Abort ==
    /\ run.pc # "idle"
    /\ hist.aborts < MaxAborts
    /\ run' = Idle
    /\ hist' = [hist EXCEPT !.aborts = @ + 1,
                            !.pending = Args(run, config),
                            !.failedat = run,
                            !.prev = NoArgs,
                            !.last = NoArgs,
                            !.rerun = FALSE]
    /\ UNCHANGED <<store, engine, es, seq, config>>

\* Loaders may fail part-way; a failed loader is run again.
NextAbort ==
    \/ Next
    \/ Abort

SpecAbort == Init /\ [][NextAbort]_vars

\* ------------------------------------------------------------------------
\* Vocabulary of the properties.
\* ------------------------------------------------------------------------

\* The records of a set that have a given value in a given field.
With(records, field, value) == {r \in records : r[field] = value}

\* No two records of a set agree on a field.
UniqueBy(records, field) ==
    \A r1, r2 \in records : r1[field] = r2[field] => r1 = r2

\* No record of the store has a duplicate under the key it is looked up by.
NoDuplicates ==
    /\ UniqueBy(store.dbs, "database_name")
    /\ UniqueBy(store.clusters, "cluster_name")
    /\ UniqueBy(store.tables, "table_name")
    /\ UniqueBy(store.datasources, "datasource_name")
    /\ UniqueBy(store.slices, "slice_name")
    /\ UniqueBy(store.dashboards, "slug")
    /\ UniqueBy(store.dashboards, "dashboard_title")
    /\ UniqueBy(store.css, "template_name")

\* The last two invocations completed, one right after the other, and were
\* invocations of the same loader with the same search cluster argument.
RanTwice ==
    /\ run.pc = "idle"
    /\ hist.last # NoArgs
    /\ hist.prev.loader = hist.last.loader
    /\ hist.prev.es = hist.last.es

\* The loader reads its search cluster argument and was given one.
OnCluster(a) == a.es /\ a.loader \in ImportLoaders

\* The table name of the dataset of a loader.
TableNameOf(loader) ==
    IF loader = "load_unicode_test_data" THEN "unicode_test"
    ELSE ImportArgs(loader).table_name

\* The handle of the dataset of an invocation, read back from the store.
DatasetOf(a) ==
    IF OnCluster(a)
    THEN LET d == CHOOSE d \in store.datasources :
                      d.datasource_name = DsName(TableNameOf(a.loader))
         IN  [type |-> "elasticsearch", id |-> d.id, name |-> d.datasource_name]
    ELSE LET t == CHOOSE t \in store.tables : t.table_name = TableNameOf(a.loader)
         IN  [type |-> "table", id |-> t.id, name |-> t.table_name]

\* The identifiers of the slices stored under the names of the calls of an
\* invocation, in the order of the calls.
SliceIdsOf(a) ==
    LET calls == SlicesOf(a.loader)
    IN  [i \in 1..Len(calls) |->
            (CHOOSE s \in store.slices :
                 s.slice_name = EffectiveName(calls[i].slice_name, DatasetOf(a))).id]

\* The store holds one connection record, with the values of invocation a.
ConnectionWritten(a) ==
    IF OnCluster(a)
    THEN Cardinality(store.clusters) = 1
    ELSE /\ Cardinality(With(store.dbs, "database_name", "main")) = 1
         /\ \A d \in store.dbs : d.sqlalchemy_uri = a.uri

\* The store holds one dataset record for invocation a, with the values the
\* invocation writes, refreshed from the data the invocation wrote.
DatasetWritten(a) ==
    LET tn == TableNameOf(a.loader)
    IN  IF OnCluster(a)
        THEN /\ Cardinality(With(store.datasources, "datasource_name", DsName(tn))) = 1
             /\ \A d \in With(store.datasources, "datasource_name", DsName(tn)) :
                   /\ d.index_name = DsName(tn)
                   /\ d.description = ImportArgs(a.loader).description
                   /\ d.is_featured
                   /\ d.cluster \in {c.id : c \in store.clusters}
                   /\ tn = "birth_names" => d.main_dttm_col = "ds"
                   /\ tn = "wb_health_population" => d.main_dttm_col = "year"
                   /\ d.fields = es[DsName(tn)].load
                   /\ d.metrics = es[DsName(tn)].load
                   /\ es[DsName(tn)].load > hist.startseq.loads
        ELSE /\ Cardinality(With(store.tables, "table_name", tn)) = 1
             /\ \A t \in With(store.tables, "table_name", tn) :
                   /\ t.database \in {d.id : d \in store.dbs}
                   /\ t.is_featured = (tn \notin {"random_time_series", "unicode_test"})
                   /\ tn \in {"birth_names", "random_time_series"} => t.main_dttm_col = "ds"
                   /\ tn = "wb_health_population" => t.main_dttm_col = "year"
                   /\ tn = "unicode_test" => t.main_dttm_col = "date"
                   /\ tn # "unicode_test" => t.description = ImportArgs(a.loader).description
                   /\ t.columns = engine[tn].load
                   /\ engine[tn].load > hist.startseq.loads

\* The store holds one slice per call of invocation a, created by the
\* invocation, with the values of the call.
SlicesWritten(a) ==
    LET calls == SlicesOf(a.loader)
        ds == DatasetOf(a)
    IN  \A i \in 1..Len(calls) :
          LET c == calls[i]
              named == With(store.slices, "slice_name", EffectiveName(c.slice_name, ds))
          IN  /\ Cardinality(named) = 1
              /\ \A s \in named :
                    /\ s.id > hist.startseq.slices
                    /\ s.viz_type = c.viz_type
                    /\ s.datasource_type = ds.type
                    /\ s.table = (IF ds.type = "table" THEN ds.id ELSE 0)
                    /\ s.elasticsearch_datasource = (IF ds.type = "table" THEN 0 ELSE ds.id)
                    /\ DOMAIN c.params \cup DOMAIN c.defaults \subseteq BlobKeys(s.params)
                    /\ \A k \in DOMAIN c.params : BlobValues(s.params, k) = {c.params[k]}
                    /\ \A k \in DOMAIN c.defaults \ DOMAIN c.params :
                          BlobValues(s.params, k) = {c.defaults[k]}

\* The slug and title of the dashboard a loader writes.
DashboardOf(loader) ==
    CASE loader = "load_world_bank_health_n_pop" ->
           [slug |-> "world_health", dashboard_title |-> "World's Bank Data"]
      [] loader = "load_birth_names" ->
           [slug |-> "births", dashboard_title |-> "Births"]
      [] loader = "load_unicode_test_data" ->
           [slug |-> "unicode-test", dashboard_title |-> "Unicode Test"]

\* The slice identifiers a layout refers to, slot by slot.
LayoutIds(position_json) ==
    [i \in 1..Len(position_json) |->
        CHOOSE id \in 1..seq.slices :
            position_json[i].slice_id \in {Str(id), N(id)}]

\* Every slot of a layout holds the identifier of some slice ever created.
LayoutReadable(position_json) ==
    \A i \in 1..Len(position_json) :
        \E id \in 1..seq.slices : position_json[i].slice_id \in {Str(id), N(id)}

\* The store holds one dashboard for invocation a, laid out over and made of
\* the slices the invocation created.
DashboardWritten(a) ==
    a.loader \in DashLoaders =>
      LET k == DashboardOf(a.loader)
          found == With(store.dashboards, "slug", k.slug)
          ids == SliceIdsOf(a)
      IN  /\ Cardinality(found) = 1
          /\ With(store.dashboards, "dashboard_title", k.dashboard_title) = found
          /\ \A d \in found :
                /\ LayoutReadable(d.position_json)
                /\ \A i \in 1..Len(d.position_json) : LayoutIds(d.position_json)[i] = ids[i]
                /\ \A i \in 1..Len(d.slices) : d.slices[i] = ids[i]
                /\ Len(d.slices) > 0

\* The store holds one CSS template per name, with its css.
CssWritten(a) ==
    a.loader = "load_css_templates" =>
      /\ With(store.css, "template_name", "Flat") =
            {r \in store.css : r.css = "FLAT_CSS"}
      /\ With(store.css, "template_name", "Courier Black") =
            {r \in store.css : r.css = "COURIER_BLACK_CSS"}
      /\ Cardinality(store.css) = 2

\* The records of invocation a are in the store, once each, as a wrote them.
Written(a) ==
    /\ a.loader # "load_css_templates" =>
          /\ ConnectionWritten(a)
          /\ DatasetWritten(a)
          /\ SlicesWritten(a)
          /\ DashboardWritten(a)
    /\ CssWritten(a)

\* ------------------------------------------------------------------------
\* Properties.
\* ------------------------------------------------------------------------

\* C1: when a loader has been run twice in a row with the same arguments, the
\* store holds no duplicate of any record (one connection record, one dataset
\* record per name, one slice per name, one dashboard per slug and per
\* title), and the records of the loader carry the values the second run wrote.
C1_Idempotent ==
    RanTwice => NoDuplicates /\ Written(hist.last)

\* C1 witness: the world bank loader has run twice in a row on the relational
\* path, under two different connection uris.
C1_Witness ==
    /\ RanTwice
    /\ hist.last.loader = "load_world_bank_health_n_pop"
    /\ ~hist.last.es
    /\ hist.prev.uri # hist.last.uri

\* Every get_or_create_slice call of every loader.
AllCalls ==
    UNION {{SlicesOf(l)[i] : i \in 1..Len(SlicesOf(l))} : l \in Loaders}

\* The call a stored slice was created by.
CallOf(s) ==
    CHOOSE c \in AllCalls : s.slice_name \in {c.slice_name, c.slice_name \o " (ES)"}

\* The keys get_or_create_slice computes from its other arguments.
ComputedKeys ==
    {"slice_name", "viz_type", "datasource_type", "datasource_id", "datasource_name"}

\* C2 (as stated): the keys of the parameter blob of every slice are the keys
\* of the defaults together with the keys of the params of its call, and a key
\* of both holds the value of params.
C2_KeysAreDefaultsAndParams ==
    \A s \in store.slices :
        LET c == CallOf(s)
        IN  /\ BlobKeys(s.params) = DOMAIN c.defaults \cup DOMAIN c.params
            /\ \A k \in DOMAIN c.defaults \cap DOMAIN c.params :
                  BlobValues(s.params, k) = {c.params[k]}

\* C2 (amended): the keys of the parameter blob of every slice are the keys of
\* the defaults, the keys of the params of its call and the five keys
\* slice_name, viz_type, datasource_type, datasource_id and datasource_name
\* that get_or_create_slice computes; a key of params holds the value of
\* params, whatever the defaults or the computed value.
C2_KeysAreDefaultsComputedAndParams ==
    \A s \in store.slices :
        LET c == CallOf(s)
        IN  /\ BlobKeys(s.params) = DOMAIN c.defaults \cup ComputedKeys \cup DOMAIN c.params
            /\ Len(s.params) = Cardinality(BlobKeys(s.params))
            /\ \A k \in DOMAIN c.params : BlobValues(s.params, k) = {c.params[k]}

\* C2 witness: a slice is stored whose call overrides a default with a
\* different value, and one whose call overrides a computed key.
C2_Witness ==
    /\ \E s \in store.slices :
          \E k \in DOMAIN CallOf(s).defaults \cap DOMAIN CallOf(s).params :
              CallOf(s).defaults[k] # CallOf(s).params[k]
    /\ \E s \in store.slices : ComputedKeys \cap DOMAIN CallOf(s).params # {}

\* A layout slot holds the identifier of a slice, as a string or as a number.
RefersTo(pos, id) == pos.slice_id \in {Str(id), N(id)}

\* The slots of a layout that hold the identifier of a slice.
SlotsOf(position_json, id) ==
    {j \in 1..Len(position_json) : RefersTo(position_json[j], id)}

\* C3: the layout of every dashboard has at least as many slots as the
\* dashboard has member slices, and the identifier of every member slice is in
\* exactly one slot of the layout.
C3_LayoutCoversMembers ==
    \A d \in store.dashboards :
        /\ Len(d.position_json) >= Len(d.slices)
        /\ \A i \in 1..Len(d.slices) :
              Cardinality(SlotsOf(d.position_json, d.slices[i])) = 1

\* C3 witness: a dashboard whose layout holds strings and a dashboard whose
\* layout holds a number have been written, each with its members.
C3_Witness ==
    /\ run.pc = "idle"
    /\ \E d \in store.dashboards : d.slug = "world_health" /\ Len(d.slices) = 10
    /\ \E d \in store.dashboards : d.slug = "unicode-test" /\ Len(d.slices) = 1

\* The dashboard a completed invocation wrote.
DashboardWrittenBy(a) ==
    CHOOSE d \in store.dashboards : d.slug = DashboardOf(a.loader).slug

\* The slices of the dataset of an invocation.
SlicesOn(a) ==
    LET ds == DatasetOf(a)
    IN  {s \in store.slices :
            /\ s.datasource_type = ds.type
            /\ ds.id = (IF ds.type = "table" THEN s.table ELSE s.elasticsearch_datasource)}

\* The birth names loader has just returned.
BirthsLoaded == run.pc = "idle" /\ hist.last.loader = "load_birth_names"

\* The slice of a set that was created last.
Newest(created) == CHOOSE s \in created : \A t \in created : t.id <= s.id

\* C4 (as stated): the birth names loader leaves 9 slices and a dashboard
\* 'births' of 8 of them, the slice left out being 'Number of Girls'.
C4_EightOfNine ==
    BirthsLoaded =>
      LET created == SlicesOn(hist.last)
          d == DashboardWrittenBy(hist.last)
      IN  /\ Cardinality(created) = 9
          /\ Len(d.slices) = 8
          /\ {s.slice_name : s \in {s \in created :
                                         \A i \in 1..Len(d.slices) : d.slices[i] # s.id}}
                \in {{"Number of Girls"}, {"Number of Girls (ES)"}}

\* C4 (amended): the birth names loader leaves 10 slices and a dashboard with
\* slug 'births' whose members are 9 of them; the slice left out is the one
\* created last (the 10th), 'Number of Girls'.
C4_NineOfTen ==
    BirthsLoaded =>
      LET created == SlicesOn(hist.last)
          d == DashboardWrittenBy(hist.last)
          members == {d.slices[i] : i \in 1..Len(d.slices)}
          out == {s \in created : s.id \notin members}
      IN  /\ Cardinality(created) = 10
          /\ Len(d.slices) = 9
          /\ Cardinality(members) = 9
          /\ members \subseteq {s.id : s \in created}
          /\ out = {Newest(created)}
          /\ {s.slice_name : s \in out} \in {{"Number of Girls"}, {"Number of Girls (ES)"}}

\* C4 witness: the birth names loader has returned, on the relational path
\* and on the search cluster path.
C4_Witness ==
    /\ BirthsLoaded
    /\ hist.prev.loader = "load_birth_names"
    /\ hist.prev.es # hist.last.es

\* One of the two loaders that leave their last slice out of the dashboard
\* has just returned.
DroppingLoaded ==
    /\ run.pc = "idle"
    /\ hist.last.loader \in {"load_world_bank_health_n_pop", "load_birth_names"}

\* C5 (as stated): the last slice of the list, which is not a member of the
\* dashboard, has its identifier in one slot of the layout.
C5_ExcludedSliceHasSlot ==
    DroppingLoaded =>
      LET d == DashboardWrittenBy(hist.last)
          excluded == Newest(SlicesOn(hist.last))
      IN  /\ \A i \in 1..Len(d.slices) : d.slices[i] # excluded.id
          /\ Cardinality(SlotsOf(d.position_json, excluded.id)) = 1

\* C5 (amended): the last slice of the list is not a member of the dashboard
\* and its identifier is in no slot of the layout; the layout has exactly one
\* slot per member (10 for 'world_health', 9 for 'births').
C5_ExcludedSliceHasNoSlot ==
    DroppingLoaded =>
      LET d == DashboardWrittenBy(hist.last)
          excluded == Newest(SlicesOn(hist.last))
      IN  /\ \A i \in 1..Len(d.slices) : d.slices[i] # excluded.id
          /\ SlotsOf(d.position_json, excluded.id) = {}
          /\ Len(d.position_json) = Len(d.slices)
          /\ Len(d.position_json) = Len(SlicesOf(hist.last.loader)) - 1

\* C5 witness: both loaders have returned.
C5_Witness ==
    /\ DroppingLoaded
    /\ hist.prev.loader \in {"load_world_bank_health_n_pop", "load_birth_names"}
    /\ hist.prev.loader # hist.last.loader

\* C6: after load_energy has run twice in a row on the relational path, the
\* dataset of the loader has exactly 3 slices, named 'Energy Sankey', 'Energy
\* Force Layout' and 'Heatmap', and the parameter blob of each holds
\* 'sum__value' under the key 'metric'.
C6_EnergyTwice ==
    (RanTwice /\ hist.last.loader = "load_energy" /\ ~hist.last.es) =>
      LET created == SlicesOn(hist.last)
      IN  /\ Cardinality(created) = 3
          /\ {s.slice_name : s \in created} =
                {"Energy Sankey", "Energy Force Layout", "Heatmap"}
          /\ Cardinality({s \in store.slices : s.slice_name \in
                {"Energy Sankey", "Energy Force Layout", "Heatmap"}}) = 3
          /\ \A s \in created : BlobValues(s.params, "metric") = {S("sum__value")}

\* C6 witness: load_energy has run twice in a row on the relational path.
C6_Witness ==
    RanTwice /\ hist.last.loader = "load_energy" /\ ~hist.last.es

\* A loader writes its dashboard in this step.
DashboardStep ==
    /\ run.pc \in {"wb_dash", "birth_dash", "u_dash"}
    /\ run'.pc = "idle"

\* C7: when a loader writes its dashboard, the positional rewrite does not
\* read past the end of the slice list (the loader does not raise, the layout
\* has no more slots than the list has slices); the list holds the slices of
\* the calls of the loader in the order of the calls, each already committed
\* before this step; and slot i of the layout written holds the identifier of
\* the i-th slice of the list.
C7_PositionalContract ==
    [][DashboardStep =>
         LET a == Args(run, config)
             calls == SlicesOf(run.loader)
             d == CHOOSE d \in store'.dashboards : d.slug = DashboardOf(run.loader).slug
         IN  /\ ~hist'.raised
             /\ Len(run.slices) = Len(calls)
             /\ \A i \in 1..Len(run.slices) :
                   \E s \in store.slices :
                       /\ s.id = run.slices[i]
                       /\ s.slice_name = EffectiveName(calls[i].slice_name, run.ds)
             /\ \A i, j \in 1..Len(run.slices) : i < j => run.slices[i] < run.slices[j]
             /\ Len(d.position_json) <= Len(run.slices)
             /\ \A i \in 1..Len(d.position_json) :
                   /\ RefersTo(d.position_json[i], run.slices[i])
                   /\ SlotsOf(d.position_json, run.slices[i]) = {i}
    ]_vars

\* C7 witness: the world bank dashboard and the birth names dashboard have
\* been written.
C7_Witness ==
    /\ run.pc = "idle"
    /\ \E d \in store.dashboards : d.slug = "world_health" /\ Len(d.position_json) = 10
    /\ \E d \in store.dashboards : d.slug = "births" /\ Len(d.position_json) = 9

\* The value get_or_create_slice computes for one of its five keys.
Computed(k, slice_name, viz_type, datasource) ==
    CASE k = "slice_name" -> S(slice_name)
      [] k = "viz_type" -> S(viz_type)
      [] k = "datasource_type" -> S(datasource.type)
      [] k = "datasource_id" -> N(datasource.id)
      [] k = "datasource_name" -> S(datasource.name)

\* The slice stored under every name is the slice of the last call for the
\* name, and no other slice has the name.
LastCallStored ==
    /\ UniqueBy(store.slices, "slice_name")
    /\ {s.slice_name : s \in store.slices} = DOMAIN hist.call
    /\ \A s \in store.slices :
          LET c == hist.call[s.slice_name]
              keys == DOMAIN c.defaults \cup ComputedKeys \cup DOMAIN c.params
          IN  /\ s.viz_type = c.viz_type
              /\ s.datasource_type = c.datasource.type
              /\ s.table = (IF c.datasource.type = "table" THEN c.datasource.id ELSE 0)
              /\ s.elasticsearch_datasource =
                    (IF c.datasource.type = "table" THEN 0 ELSE c.datasource.id)
              /\ s.id # c.found
              /\ BlobKeys(s.params) = keys
              /\ Len(s.params) = Cardinality(keys)
              /\ \A k \in keys :
                    BlobValues(s.params, k) =
                      {IF k \in DOMAIN c.params THEN c.params[k]
                       ELSE IF k \in ComputedKeys
                            THEN Computed(k, s.slice_name, c.viz_type, c.datasource)
                            ELSE c.defaults[k]}

\* When a slice is stored under a name, the slice that had the name is gone,
\* and its identifier is the identifier of no slice.
ReplacedIsGone ==
    \A s \in store'.slices \ store.slices :
        \A t \in store.slices :
            t.slice_name = s.slice_name =>
                t.id \notin {u.id : u \in store'.slices}

\* C8: after any sequence of get_or_create_slice calls no two slices have the
\* same name; the slice stored under a name has the visualization type, the
\* datasource and the parameter blob of the last call for the name; and
\* nothing of the slice it replaced is left: not the slice, not its
\* identifier, not a parameter the last call does not give.
C8_SliceReplace ==
    /\ []LastCallStored
    /\ [][ReplacedIsGone]_vars

\* C8 witness: a call has replaced a slice that had a parameter the call
\* does not give.
C8_Witness ==
    \E s \in store.slices :
        /\ hist.call[s.slice_name].found # 0
        /\ BlobKeys(hist.call[s.slice_name].before) \ BlobKeys(s.params) # {}

\* The names of the slices an invocation stores.
SliceNamesOf(a) ==
    {EffectiveName(SlicesOf(a.loader)[i].slice_name, DatasetOf(a)) :
        i \in 1..Len(SlicesOf(a.loader))}

\* f restricted to the keys other than k
Without(f, k) == [x \in DOMAIN f \ {k} |-> f[x]]

\* What an invocation does not write is as it was when the loader was first
\* started: the records, tables and indices of the other loaders.
OthersUntouched(a) ==
    LET was == hist.start
        tn == TableNameOf(a.loader)
    IN  IF a.loader = "load_css_templates"
        THEN /\ [store EXCEPT !.css = {}] = [was.store EXCEPT !.css = {}]
             /\ engine = was.engine
             /\ es = was.es
        ELSE /\ store.css = was.store.css
             /\ store.clusters = was.store.clusters
             /\ {s \in store.slices : s.slice_name \notin SliceNamesOf(a)} =
                   {s \in was.store.slices : s.slice_name \notin SliceNamesOf(a)}
             /\ {d \in store.dashboards :
                     a.loader \in DashLoaders => d.slug # DashboardOf(a.loader).slug} =
                   {d \in was.store.dashboards :
                     a.loader \in DashLoaders => d.slug # DashboardOf(a.loader).slug}
             /\ IF OnCluster(a)
                THEN /\ store.dbs = was.store.dbs
                     /\ store.tables = was.store.tables
                     /\ engine = was.engine
                     /\ {d \in store.datasources : d.datasource_name # DsName(tn)} =
                           {d \in was.store.datasources : d.datasource_name # DsName(tn)}
                     /\ DOMAIN es = DOMAIN was.es \cup {DsName(tn)}
                     /\ Without(es, DsName(tn)) = Without(was.es, DsName(tn))
                ELSE /\ store.datasources = was.store.datasources
                     /\ es = was.es
                     /\ {t \in store.tables : t.table_name # tn} =
                           {t \in was.store.tables : t.table_name # tn}
                     /\ DOMAIN engine = DOMAIN was.engine \cup {tn}
                     /\ Without(engine, tn) = Without(was.engine, tn)

\* The data an invocation loads is the data of its file, and nothing else.
DataWritten(a) ==
    LET tn == TableNameOf(a.loader)
    IN  a.loader # "load_css_templates" =>
          IF OnCluster(a)
          THEN /\ Len(es[DsName(tn)].docs) = Len(FileRows(ImportArgs(a.loader).file_name))
               /\ \A i \in 1..Len(es[DsName(tn)].docs) :
                     es[DsName(tn)].docs[i].source =
                        FileRows(ImportArgs(a.loader).file_name)[i]
          ELSE LET file_name == IF a.loader = "load_unicode_test_data"
                                THEN "unicode_utf8_unixnl_test.csv"
                                ELSE ImportArgs(a.loader).file_name
               IN  /\ Len(engine[tn].rows) = Len(FileRows(file_name))
                   /\ \A i \in 1..Len(engine[tn].rows) :
                         engine[tn].rows[i].row = FileRows(file_name)[i]

\* The store is what one run of the loader without failure leaves, up to
\* identifiers: the records of the loader once each with the values the
\* loader writes, everything else as it was.
EffectOf(a) ==
    /\ NoDuplicates
    /\ Written(a)
    /\ DataWritten(a)
    /\ OthersUntouched(a)

\* C9: when a loader failed at some step and was then run again to the end,
\* the store is what one run without failure from the same initial store
\* leaves: one dataset record, one slice per name, one dashboard per slug,
\* the data of the file, and nothing left over from the failed run.
C9_RerunAfterFailure ==
    (hist.returned /\ hist.recovered) => EffectOf(hist.last)

\* C9 witness: the world bank loader failed on the search cluster path after
\* it had committed some of its slices, and has been run again to the end.
C9_Witness ==
    /\ hist.returned
    /\ hist.recovered
    /\ hist.last.loader = "load_world_bank_health_n_pop"
    /\ hist.last.es
    /\ hist.failedat.pc = "slices"
    /\ Len(hist.failedat.slices) = 5

\* A run without failure has the effect C9 compares with.
FailureFreeEffect ==
    hist.returned => EffectOf(hist.last)

\* C10: import_data writes the data first (the table, or the index emptied
\* and then filled), then commits the dataset record, then refreshes its
\* metadata from the data just written, and only then returns: whenever a
\* loader is about to create a slice, its dataset record is persisted and
\* refreshed.
C10_ImportOrder ==
    LET a == Args(run, config)
        tn == TableNameOf(run.loader)
    IN  /\ run.pc \in {"es_upsert", "es_refresh_fields", "es_generate_metrics"} =>
              /\ DsName(tn) \in DOMAIN es
              /\ es[DsName(tn)].load > hist.startseq.loads
              /\ DataWritten(a)
        /\ run.pc \in {"tbl_lookup", "tbl_commit", "fetch_metadata"} =>
              /\ tn \in DOMAIN engine
              /\ engine[tn].load > hist.startseq.loads
        /\ run.pc \in {"es_refresh_fields", "es_generate_metrics"} =>
              \E d \in store.datasources :
                  /\ d.id = run.ds.id
                  /\ d.datasource_name = DsName(tn)
                  /\ d.description = ImportArgs(run.loader).description
                  /\ run.pc = "es_generate_metrics" => d.fields = es[DsName(tn)].load
        /\ run.pc = "fetch_metadata" =>
              \E t \in store.tables :
                  /\ t.id = run.ds.id
                  /\ t.table_name = tn
                  /\ t.description = ImportArgs(run.loader).description
        /\ (run.loader \in ImportLoaders /\
            run.pc \in {"slices", "wb_dash", "birth_dash"}) =>
              /\ DatasetWritten(a)
              /\ run.ds = DatasetOf(a)

\* C10 witness: import_data has returned, on each path, to a loader that is
\* being run for the second time: the dataset record was there before.
C10_Witness ==
    /\ run.pc = "slices"
    /\ run.loader \in ImportLoaders
    /\ hist.last.loader = run.loader
    /\ hist.last.es = run.es

\* The steps of import_data on the search cluster path that follow the bulk
\* indexing, and the steps of the loader that follow import_data.
AfterBulk ==
    {"es_upsert", "es_refresh_fields", "es_generate_metrics",
     "slices", "wb_dash", "birth_dash"}

\* The import of the invocation in progress, or of the invocation that has
\* just returned, went through the search cluster and has indexed its file.
Imported(a) ==
    /\ OnCluster(a)
    /\ \/ run.pc \in AfterBulk /\ a = Args(run, config)
       \/ hist.returned /\ a = hist.last

\* The index of an invocation holds the records of its file, in their order,
\* each once, under the document type of the table, and no other document.
IndexIsFile(a) ==
    LET tn == TableNameOf(a.loader)
        data == FileRows(ImportArgs(a.loader).file_name)
    IN  /\ DsName(tn) \in DOMAIN es
        /\ [i \in 1..Len(es[DsName(tn)].docs) |-> es[DsName(tn)].docs[i].source] = data
        /\ \A i \in 1..Len(es[DsName(tn)].docs) : es[DsName(tn)].docs[i].doc_type = tn

\* Whenever an import through the cluster has got past the bulk indexing, the
\* index is the file.
ImportedExactly ==
    \A a \in {Args(run, config), hist.last} : Imported(a) => IndexIsFile(a)

\* The deletion of the index, when it does not fail for another reason, leaves
\* no index of the name and lets the import continue with the bulk indexing,
\* whether the index was there or not.
PreDeleteContinues ==
    (run.pc = "es_delete" /\ hist'.aborts = hist.aborts) =>
        /\ run'.pc = "es_bulk"
        /\ DsName(ImportArgs(run.loader).table_name) \notin DOMAIN es'
        /\ ~hist'.raised
        /\ UNCHANGED <<store, engine, seq>>

\* A failure ends the invocation at the step it has reached: no later step of
\* the loader is taken and nothing is written.
FailureAborts ==
    hist'.aborts # hist.aborts =>
        /\ run.pc # "idle"
        /\ run' = Idle
        /\ UNCHANGED <<store, engine, es, seq>>

\* C11: on the search cluster path of import_data the deletion of the index
\* 'example-<table_name>' goes through and the import continues whether or not
\* the index exists; any other failure ends the run where it is; and once the
\* bulk indexing is done the index holds exactly the records of the file, with
\* nothing left of a previous import or of a failed one.
C11_ClusterImport ==
    /\ []ImportedExactly
    /\ [][PreDeleteContinues /\ FailureAborts]_vars

\* C11 witness: an import through the cluster failed after its bulk indexing,
\* so that its documents were in the index, and the loader was run again to
\* the end: the first deletion found no index, the second found one.
C11_Witness ==
    /\ hist.returned
    /\ hist.recovered
    /\ hist.last.es
    /\ hist.failedat.pc \in AfterBulk
    /\ hist.start.es = EmptyFcn
    /\ IndexIsFile(hist.last)


\* ------------------------------------------------------------------------
\* Two invocations at once.
\*
\* In SpecConcurrent the same loader is invoked by two processes against the
\* same storage.  Each process has its own session, so `run` holds one
\* invocation per process, and every round trip to the storage (a look-up, a
\* commit, a table write) is a step of its own.  The records a process holds
\* are the ones its look-ups returned; what its commit does with them is what
\* the sequential steps do (get_or_create_db, get_or_create_slice, DashUpsert).
\* ------------------------------------------------------------------------

Procs == {1, 2}

\* The loaders that are run concurrently: one that goes through import_data
\* and creates several slices, one that creates its dataset record itself and
\* writes a dashboard.
ConcurrentLoaders == {"load_energy", "load_unicode_test_data"}

\* A process that has not invoked the loader yet.
NotStarted ==
    [pc |-> "c_new", loader |-> None, ds |-> [type |-> None, id |-> 0, name |-> None],
     slices |-> <<>>, o |-> 0, dbid |-> 0]

InitConcurrent ==
    /\ store = EmptyStore
    /\ engine = EmptyFcn
    /\ es = EmptyFcn
    /\ seq = [dbs |-> 0, clusters |-> 0, tables |-> 0, datasources |-> 0,
              slices |-> 0, dashboards |-> 0, css |-> 0, loads |-> 0]
    /\ config \in Uris
    /\ run = [p \in Procs |-> NotStarted]
    /\ hist = [raced |-> {}, raised |-> {}]

\* The name of the slice a process is creating.
CurrentSliceName(r) ==
    EffectiveName(SlicesOf(r.loader)[Len(r.slices) + 1].slice_name, r.ds)

\* The records a process has looked up and not yet committed, by kind and by
\* the name they were looked up under.
PendingKeys(r) ==
    (IF r.pc \in {"c_db_lookup", "c_db_commit", "c_tbl_commit"}
     THEN {<<"tables", TableNameOf(r.loader)>>} ELSE {})
    \cup (IF r.pc = "c_db_commit" THEN {<<"dbs", "main">>} ELSE {})
    \cup (IF r.pc = "c_slc_commit" THEN {<<"slices", CurrentSliceName(r)>>} ELSE {})
    \cup (IF r.pc = "c_dash_commit"
          THEN {<<"dashboards", DashboardOf(r.loader).slug>>} ELSE {})

\* The history after process p commits the record of a key: the key is raced
\* when another process has looked it up and is yet to commit it.
Commits(p, key) ==
    [hist EXCEPT !.raced =
        IF \E q \in Procs \ {p} : key \in PendingKeys(run[q]) THEN @ \cup {key} ELSE @]

\* The process raised: it takes no further step.
CRaised(p, key) ==
    /\ run' = [run EXCEPT ![p].pc = "c_raised"]
    /\ hist' = [Commits(p, key) EXCEPT !.raised = @ \cup {p}]
    /\ UNCHANGED <<store, engine, es, seq, config>>

\* A process invokes the loader the other process invokes.
CStart(p, loader) ==
    /\ run[p].pc = "c_new"
    /\ \A q \in Procs : run[q].loader \in {None, loader}
    /\ run' = [run EXCEPT ![p] = [NotStarted EXCEPT !.pc = "c_to_sql", !.loader = loader]]
    /\ UNCHANGED <<store, engine, es, seq, config, hist>>

\* The table is written with if_exists='replace'.
CToSql(p) ==
    /\ run[p].pc = "c_to_sql"
    /\ IF run[p].loader = "load_unicode_test_data"
       THEN \E value \in RandomValues :
              LET data == FileRows("unicode_utf8_unixnl_test.csv")
                  df == [i \in 1..Len(data) |-> [row |-> data[i], value |-> value]]
              IN  engine' = Put(engine, "unicode_test",
                                [rows |-> df, load |-> seq.loads + 1])
       ELSE LET a == ImportArgs(run[p].loader)
                data == FileRows(a.file_name)
                pdf == [i \in 1..Len(data) |->
                           [row |-> data[i], to_datetime |-> DateCoercion(a.table_name)]]
            IN  engine' = Put(engine, a.table_name, [rows |-> pdf, load |-> seq.loads + 1])
    /\ seq' = [seq EXCEPT !.loads = @ + 1]
    /\ run' = [run EXCEPT ![p].pc = "c_tbl_lookup"]
    /\ UNCHANGED <<store, es, config, hist>>

\* query(TBL).filter_by(table_name=...).first()
CTblLookup(p) ==
    /\ run[p].pc = "c_tbl_lookup"
    /\ LET tn == TableNameOf(run[p].loader)
       IN  \E id \in First({t \in store.tables : t.table_name = tn}) :
             run' = [run EXCEPT ![p].pc = "c_db_lookup",
                                ![p].ds = [type |-> "table", id |-> id, name |-> tn]]
    /\ UNCHANGED <<store, engine, es, seq, config, hist>>

\* get_or_create_db: query(DB).filter_by(database_name='main').first()
CDbLookup(p) ==
    /\ run[p].pc = "c_db_lookup"
    /\ \E dbid \in First({d \in store.dbs : d.database_name = "main"}) :
         run' = [run EXCEPT ![p].pc = "c_db_commit", ![p].dbid = dbid]
    /\ UNCHANGED <<store, engine, es, seq, config, hist>>

\* The fields the loader sets on the dataset record it found before it calls
\* get_or_create_db.
CTblFields(loader, t) ==
    IF loader = "load_unicode_test_data"
    THEN [t EXCEPT !.main_dttm_col = "date"]
    ELSE [t EXCEPT !.is_featured = TblFeatured(t.table_name),
                   !.main_dttm_col = TblDttmCol(t.table_name, @)]

\* get_or_create_db: session.add(dbobj); session.commit().  A record the
\* look-up did not find is inserted; when another process has inserted one of
\* the name meanwhile, the insert goes through or, if the schema has the name
\* unique, raises.
CDbCommit(p) ==
    /\ run[p].pc = "c_db_commit"
    /\ LET r == run[p]
           new == r.dbid = 0
           clash == new /\ \E d \in store.dbs : d.database_name = "main"
           st1 == get_or_create_db(store, seq, r.dbid, config)
           st2 == IF r.ds.id = 0 THEN st1
                  ELSE [st1 EXCEPT !.tables =
                          Persist(@, CTblFields(r.loader, ById(store.tables, r.ds.id)))]
       IN  \E ok \in IF clash THEN BOOLEAN ELSE {TRUE} :
             IF ok
             THEN /\ store' = st2
                  /\ seq' = [seq EXCEPT !.dbs = IF new THEN @ + 1 ELSE @]
                  /\ run' = [run EXCEPT ![p].pc = "c_tbl_commit",
                                        ![p].dbid = IF new THEN seq.dbs + 1 ELSE @]
                  /\ hist' = Commits(p, <<"dbs", "main">>)
                  /\ UNCHANGED <<engine, es, config>>
             ELSE CRaised(p, <<"dbs", "main">>)

\* The dataset record is given its connection and its other fields, merged
\* and committed: inserted when the look-up had not found it.
CTblCommit(p) ==
    /\ run[p].pc = "c_tbl_commit"
    /\ LET r == run[p]
           tn == TableNameOf(r.loader)
           new == r.ds.id = 0
           clash == new /\ \E t \in store.tables : t.table_name = tn
           old == IF new THEN [main_dttm_col |-> None, description |-> None, columns |-> 0]
                  ELSE ById(store.tables, r.ds.id)
           ds == IF r.loader = "load_unicode_test_data"
                 THEN [id |-> IF new THEN seq.tables + 1 ELSE r.ds.id,
                       table_name |-> tn,
                       is_featured |-> FALSE,
                       main_dttm_col |-> "date",
                       database |-> r.dbid,
                       description |-> old.description,
                       columns |-> old.columns]
                 ELSE [id |-> IF new THEN seq.tables + 1 ELSE r.ds.id,
                       table_name |-> tn,
                       is_featured |-> TblFeatured(tn),
                       main_dttm_col |-> TblDttmCol(tn, old.main_dttm_col),
                       database |-> r.dbid,
                       description |-> ImportArgs(r.loader).description,
                       columns |-> old.columns]
       IN  \E ok \in IF clash THEN BOOLEAN ELSE {TRUE} :
             IF ok
             THEN /\ store' = [store EXCEPT !.tables = Persist(@, ds)]
                  /\ seq' = [seq EXCEPT !.tables = IF new THEN @ + 1 ELSE @]
                  /\ run' = [run EXCEPT ![p].pc = "c_fetch_metadata", ![p].ds.id = ds.id]
                  /\ hist' = Commits(p, <<"tables", tn>>)
                  /\ UNCHANGED <<engine, es, config>>
             ELSE CRaised(p, <<"tables", tn>>)

\* ds.fetch_metadata()
CFetchMetadata(p) ==
    /\ run[p].pc = "c_fetch_metadata"
    /\ LET ds == ById(store.tables, run[p].ds.id)
       IN  store' = [store EXCEPT !.tables =
                        Persist(@, fetch_metadata(ds, engine[ds.table_name]))]
    /\ run' = [run EXCEPT ![p].pc = "c_slc_lookup"]
    /\ UNCHANGED <<engine, es, seq, config, hist>>

\* get_or_create_slice: query(Slice).filter_by(slice_name=slice_name).first()
CSliceLookup(p) ==
    /\ run[p].pc = "c_slc_lookup"
    /\ \E o \in First(SlicesNamed(store, CurrentSliceName(run[p]))) :
         run' = [run EXCEPT ![p].pc = "c_slc_commit", ![p].o = o]
    /\ UNCHANGED <<store, engine, es, seq, config, hist>>

\* get_or_create_slice: the slice the look-up found is deleted (to no effect
\* when it is gone already), the new slice added, and both committed.
CSliceCommit(p) ==
    /\ run[p].pc = "c_slc_commit"
    /\ LET r == run[p]
           calls == SlicesOf(r.loader)
           i == Len(r.slices) + 1
           c == calls[i]
           next == IF i < Len(calls) THEN "c_slc_lookup"
                   ELSE IF r.loader \in DashLoaders THEN "c_dash_lookup" ELSE "c_done"
       IN  /\ store' = get_or_create_slice(store, seq, r.o, c.slice_name, c.viz_type,
                                             r.ds, c.defaults, c.params)
           /\ seq' = [seq EXCEPT !.slices = @ + 1]
           /\ run' = [run EXCEPT ![p].pc = next, ![p].slices = Append(@, seq.slices + 1)]
           /\ hist' = Commits(p, <<"slices", CurrentSliceName(r)>>)
    /\ UNCHANGED <<engine, es, config>>

\* query(Dash).filter_by(dashboard_title="Unicode Test").first()
CDashLookup(p) ==
    /\ run[p].pc = "c_dash_lookup"
    /\ \E id \in First({d \in store.dashboards :
                           d.dashboard_title = DashboardOf(run[p].loader).dashboard_title}) :
         run' = [run EXCEPT ![p].pc = "c_dash_commit", ![p].o = id]
    /\ UNCHANGED <<store, engine, es, seq, config, hist>>

\* The dashboard is given its layout and its slice, merged and committed.
\* Reading slc.id raises when the other process has deleted the slice; a
\* dashboard the look-up did not find is inserted, or raises if the schema has
\* the slug unique and the other process has inserted it meanwhile.
CDashCommit(p) ==
    /\ run[p].pc = "c_dash_commit"
    /\ LET r == run[p]
           k == DashboardOf(r.loader)
           slc == r.slices[1]
           gone == \A s \in store.slices : s.id # slc
           clash == r.o = 0 /\ \E d \in store.dashboards : d.slug = k.slug
           pos == [size_y |-> N(4), size_x |-> N(4), col |-> N(1), row |-> N(1),
                   slice_id |-> N(slc)]
       IN  \E ok \in IF gone THEN {FALSE} ELSE IF clash THEN BOOLEAN ELSE {TRUE} :
             IF ok
             THEN /\ store' = DashUpsert(store, seq, r.o, k.dashboard_title, k.slug,
                                         <<pos>>, <<slc>>)
                  /\ seq' = [seq EXCEPT !.dashboards = IF r.o = 0 THEN @ + 1 ELSE @]
                  /\ run' = [run EXCEPT ![p].pc = "c_done"]
                  /\ hist' = Commits(p, <<"dashboards", k.slug>>)
                  /\ UNCHANGED <<engine, es, config>>
             ELSE CRaised(p, <<"dashboards", k.slug>>)

\* The two invocations, their steps interleaved in any order.
NextConcurrent ==
    \E p \in Procs :
        \/ \E loader \in ConcurrentLoaders : CStart(p, loader)
        \/ CToSql(p)
        \/ CTblLookup(p)
        \/ CDbLookup(p)
        \/ CDbCommit(p)
        \/ CTblCommit(p)
        \/ CFetchMetadata(p)
        \/ CSliceLookup(p)
        \/ CSliceCommit(p)
        \/ CDashLookup(p)
        \/ CDashCommit(p)

SpecConcurrent == InitConcurrent /\ [][NextConcurrent]_vars

\* The records of a set that share their value of a field with another
\* record, as keys: the kind and the shared value.
Duplicated(kind, records, field) ==
    {<<kind, r[field]>> : r \in {r \in records : With(records, field, r[field]) # {r}}}

\* The names under which the store holds more than one record.
DuplicateKeys ==
    Duplicated("dbs", store.dbs, "database_name")
    \cup Duplicated("tables", store.tables, "table_name")
    \cup Duplicated("slices", store.slices, "slice_name")
    \cup Duplicated("dashboards", store.dashboards, "slug")

\* Both invocations have ended, by returning or by raising.
BothEnded == \A p \in Procs : run[p].pc \in {"c_done", "c_raised"}

\* C12: nothing keeps the look-up and the insert of one invocation from
\* interleaving with those of the other.  The store holds two records of one
\* name only where one process committed the record between the look-up and the
\* commit of the other (invocations that do not overlap leave no duplicate),
\* and every such interleaving on a slice name does leave two slices of the
\* name when both invocations have ended.
C12_DuplicatesByRace ==
    /\ DuplicateKeys \subseteq hist.raced
    /\ BothEnded =>
          \A key \in hist.raced :
              key[1] = "slices" => Cardinality(SlicesNamed(store, key[2])) = 2

\* C12 witness: both invocations looked up before either inserted, found
\* nothing and returned: the store holds two 'main' connection records, two
\* dataset records of one table name and two slices of one name.
C12_Witness ==
    /\ \A p \in Procs : run[p].pc = "c_done"
    /\ Cardinality(With(store.dbs, "database_name", "main")) = 2
    /\ \E t1, t2 \in store.tables : t1.id # t2.id /\ t1.table_name = t2.table_name
    /\ \E s1, s2 \in store.slices : s1.id # s2.id /\ s1.slice_name = s2.slice_name


\* The identifiers of the slices in the store.
SliceIds == {s.id : s \in store.slices}

\* The identifiers of the member slices of a dashboard.
Members(d) == {d.slices[i] : i \in 1..Len(d.slices)}

\* Every slot of the layout of a dashboard holds the identifier of a slice
\* that is in the store and is a member of the dashboard.
NoDanglingSlot(d) ==
    /\ LayoutReadable(d.position_json)
    /\ \A i \in 1..Len(d.position_json) :
          /\ LayoutIds(d.position_json)[i] \in SliceIds
          /\ LayoutIds(d.position_json)[i] \in Members(d)

\* C13: when no loader is running, whatever loaders have run before and
\* however often, every slice_id in the layout of every dashboard
\* ('world_health', 'births', 'unicode-test') is the identifier of a slice
\* that exists and is a member of that dashboard, and every member exists:
\* the identifiers of the slices a re-run deleted are in no layout.
C13_NoDanglingLayout ==
    run.pc = "idle" =>
        \A d \in store.dashboards :
            /\ NoDanglingSlot(d)
            /\ Members(d) \subseteq SliceIds

\* C13 witness: a dashboard loader has run twice in a row, so that every slice
\* the layout of its dashboard referred to has been deleted and created again
\* under a new identifier.
C13_Witness ==
    /\ RanTwice
    /\ hist.last.loader \in DashLoaders
    /\ \E d \in store.dashboards :
          /\ d.slug = DashboardOf(hist.last.loader).slug
          /\ \A id \in Members(d) : id > Len(SlicesOf(hist.last.loader))


\* The names a loader stores slices under, on either path.
AllSliceNamesOf(loader) ==
    UNION {{SlicesOf(loader)[i].slice_name, SlicesOf(loader)[i].slice_name \o " (ES)"} :
              i \in 1..Len(SlicesOf(loader))}

\* The names of the slices, of the table and index and of the dashboard of
\* two different loaders are different.
NamesDisjoint ==
    \A l1, l2 \in Loaders \ {"load_css_templates"} :
        l1 # l2 =>
            /\ AllSliceNamesOf(l1) \cap AllSliceNamesOf(l2) = {}
            /\ TableNameOf(l1) # TableNameOf(l2)
            /\ DsName(TableNameOf(l1)) # DsName(TableNameOf(l2))
            /\ (l1 \in DashLoaders /\ l2 \in DashLoaders) =>
                  /\ DashboardOf(l1).slug # DashboardOf(l2).slug
                  /\ DashboardOf(l1).dashboard_title # DashboardOf(l2).dashboard_title

\* The dataset handle of an invocation, without its identifier.
HandleOf(a) ==
    IF OnCluster(a)
    THEN [type |-> "elasticsearch", id |-> 0, name |-> DsName(TableNameOf(a.loader))]
    ELSE [type |-> "table", id |-> 0, name |-> TableNameOf(a.loader)]

\* A parameter blob with the name of the dataset in the place of its
\* identifier.
NoId(blob, name) ==
    [i \in DOMAIN blob |->
        IF blob[i][1] = "datasource_id" THEN <<"datasource_id", S(name)>> ELSE blob[i]]

\* The name of the dataset of a stored slice.
DatasetNameOf(s) ==
    IF s.datasource_type = "table"
    THEN (CHOOSE t \in store.tables : t.id = s.table).table_name
    ELSE (CHOOSE d \in store.datasources : d.id = s.elasticsearch_datasource).datasource_name

\* The name of the stored slice of an identifier.
NameOfId(id) == (CHOOSE s \in store.slices : s.id = id).slice_name

\* The store up to identifiers: every record without its identifier, with
\* the name of the record it refers to in the place of each reference, and
\* each table and index with its data.
StoredRecords ==
    [dbs |-> {[database_name |-> d.database_name, sqlalchemy_uri |-> d.sqlalchemy_uri] :
                 d \in store.dbs},
     tables |->
        {[table_name |-> t.table_name,
          is_featured |-> t.is_featured,
          main_dttm_col |-> t.main_dttm_col,
          description |-> t.description,
          database |-> (CHOOSE d \in store.dbs : d.id = t.database).database_name,
          rows |-> [i \in 1..Len(engine[t.table_name].rows) |->
                       engine[t.table_name].rows[i].row],
          refreshed |-> t.columns = engine[t.table_name].load] : t \in store.tables},
     datasources |->
        {[datasource_name |-> d.datasource_name,
          index_name |-> d.index_name,
          is_featured |-> d.is_featured,
          main_dttm_col |-> d.main_dttm_col,
          description |-> d.description,
          cluster |-> (CHOOSE c \in store.clusters : c.id = d.cluster).cluster_name,
          docs |-> [i \in 1..Len(es[d.index_name].docs) |-> es[d.index_name].docs[i].source],
          refreshed |-> d.fields = es[d.index_name].load /\ d.metrics = d.fields] :
             d \in store.datasources},
     slices |->
        {[slice_name |-> s.slice_name,
          viz_type |-> s.viz_type,
          datasource_type |-> s.datasource_type,
          dataset |-> DatasetNameOf(s),
          params |-> NoId(s.params, DatasetNameOf(s))] : s \in store.slices},
     dashboards |->
        {[dashboard_title |-> d.dashboard_title,
          slug |-> d.slug,
          layout |-> [i \in 1..Len(d.position_json) |->
                         [d.position_json[i] EXCEPT !.slice_id =
                             <<@[1], NameOfId(LayoutIds(d.position_json)[i])>>]],
          members |-> [i \in 1..Len(d.slices) |-> NameOfId(d.slices[i])]] :
             d \in store.dashboards},
     css |-> {[template_name |-> t.template_name, css |-> t.css] : t \in store.css},
     data |-> DOMAIN engine \cup DOMAIN es]

\* The records an invocation stores, up to identifiers, as the loader spells
\* them out: they do not depend on what the store held before.
RecordsOf(a) ==
    LET tn == TableNameOf(a.loader)
        ds == HandleOf(a)
        calls == SlicesOf(a.loader)
        names == [i \in 1..Len(calls) |-> EffectiveName(calls[i].slice_name, ds)]
        unicode == a.loader = "load_unicode_test_data"
        template == IF a.loader = "load_world_bank_health_n_pop"
                    THEN WbTemplate ELSE BirthTemplate
    IN  IF a.loader = "load_css_templates"
        THEN [EmptyStore EXCEPT
                !.css = {[template_name |-> "Flat", css |-> "FLAT_CSS"],
                         [template_name |-> "Courier Black", css |-> "COURIER_BLACK_CSS"]}]
        ELSE
        [dbs |-> {},
         clusters |-> {},
         css |-> {},
         tables |->
            IF OnCluster(a) THEN {}
            ELSE {[table_name |-> tn,
                   is_featured |-> IF unicode THEN FALSE ELSE TblFeatured(tn),
                   main_dttm_col |-> IF unicode THEN "date" ELSE TblDttmCol(tn, None),
                   description |-> IF unicode THEN None ELSE ImportArgs(a.loader).description,
                   database |-> "main",
                   rows |-> FileRows(IF unicode THEN "unicode_utf8_unixnl_test.csv"
                                     ELSE ImportArgs(a.loader).file_name),
                   refreshed |-> TRUE]},
         datasources |->
            IF ~OnCluster(a) THEN {}
            ELSE {[datasource_name |-> DsName(tn),
                   index_name |-> DsName(tn),
                   is_featured |-> TRUE,
                   main_dttm_col |-> EsDttmCol(tn, None),
                   description |-> ImportArgs(a.loader).description,
                   cluster |-> "ElasticSearch examples",
                   docs |-> FileRows(ImportArgs(a.loader).file_name),
                   refreshed |-> TRUE]},
         slices |->
            {[slice_name |-> names[i],
              viz_type |-> calls[i].viz_type,
              datasource_type |-> ds.type,
              dataset |-> ds.name,
              params |-> NoId(dumps(SliceParams(calls[i].slice_name, calls[i].viz_type, ds,
                                                calls[i].defaults, calls[i].params)),
                              ds.name)] : i \in 1..Len(calls)},
         dashboards |->
            IF a.loader \notin DashLoaders THEN {}
            ELSE {[dashboard_title |-> DashboardOf(a.loader).dashboard_title,
                   slug |-> DashboardOf(a.loader).slug,
                   layout |->
                      IF unicode
                      THEN <<[size_y |-> N(4), size_x |-> N(4), col |-> N(1), row |-> N(1),
                              slice_id |-> <<"n", names[1]>>]>>
                      ELSE [i \in 1..Len(template) |->
                               [template[i] EXCEPT !.slice_id = <<"s", names[i]>>]],
                   members |-> IF unicode THEN names
                               ELSE SubSeq(names, 1, Len(names) - 1)]}]

\* The 'main' connection record is there when one of two invocations writes
\* it; it holds the uri of the last invocation that does.
MainOf(a, b) ==
    LET writes(x) == x.loader # "load_css_templates" /\ ~OnCluster(x)
    IN  IF writes(b) THEN {[database_name |-> "main", sqlalchemy_uri |-> b.uri]}
        ELSE IF writes(a) THEN {[database_name |-> "main", sqlalchemy_uri |-> a.uri]}
        ELSE {}

\* Two different loaders have been run to the end, one after the other, on a
\* store that was empty.
TwoLoadersRan ==
    /\ run.pc = "idle"
    /\ hist.returned
    /\ hist.runs = 2
    /\ hist.prev.loader \notin {None, hist.last.loader}

\* C14: the names of the slices, of the table or index and of the dashboard
\* of different loaders are pairwise different; a loader that returns has left
\* every slice, dataset record, dashboard, table and index of the other
\* loaders as it found them; and when two different loaders have run, the
\* store is, up to identifiers, the records of the one together with the
\* records of the other, whichever ran first, and the one 'main' connection
\* record they share.
C14_NoInterference ==
    /\ NamesDisjoint
    /\ hist.returned => OthersUntouched(hist.last)
    /\ TwoLoadersRan =>
          LET a == hist.prev
              b == hist.last
              stored == StoredRecords
          IN  /\ NoDuplicates
              /\ stored.dbs = MainOf(a, b)
              /\ \A kind \in {"tables", "datasources", "slices", "dashboards", "css"} :
                    /\ stored[kind] = RecordsOf(a)[kind] \cup RecordsOf(b)[kind]
                    /\ Cardinality(store[kind]) =
                          Cardinality(RecordsOf(a)[kind]) + Cardinality(RecordsOf(b)[kind])
              /\ stored.data = {r.table_name : r \in stored.tables}
                                  \cup {r.index_name : r \in stored.datasources}

\* C14 witness: load_birth_names and then load_energy have run, both on the
\* relational path: the store holds the 10 slices and the dashboard of the
\* one and the 3 slices of the other.
C14_Witness ==
    /\ TwoLoadersRan
    /\ hist.prev = [loader |-> "load_birth_names", es |-> FALSE, uri |-> hist.last.uri]
    /\ hist.last.loader = "load_energy"
    /\ ~hist.last.es
    /\ Cardinality(store.slices) = 13
    /\ Cardinality(store.dashboards) = 1


\* The slices stored under the names of the calls of a loader: the plain
\* names, or the names with the suffix ' (ES)'.
Family(slices, loader, suffixed) ==
    {s \in slices :
        \E i \in 1..Len(SlicesOf(loader)) :
            s.slice_name = IF suffixed THEN SlicesOf(loader)[i].slice_name \o " (ES)"
                           ELSE SlicesOf(loader)[i].slice_name}

\* One of the two loaders of a dashboard that take a search cluster handle
\* has been run twice in a row, once without the handle and once with it, in
\* either order.
SwitchedMode ==
    /\ run.pc = "idle"
    /\ hist.returned
    /\ hist.prev.loader = hist.last.loader
    /\ hist.prev.es # hist.last.es
    /\ hist.last.loader \in {"load_world_bank_health_n_pop", "load_birth_names"}

\* C15: when load_world_bank_health_n_pop or load_birth_names has been run on
\* one path and then on the other, the store holds both families of slices,
\* one slice per call under the plain name, on the table, and one under the
\* name with ' (ES)', on the cluster datasource; the slices of the first run
\* are the ones it created, none deleted by the second; there is one
\* dashboard of the slug, and its members and the slots of its layout are
\* slices the second run created, of the family of the second run.
C15_BothFamiliesOneDashboard ==
    SwitchedMode =>
      LET loader == hist.last.loader
          n == Len(SlicesOf(loader))
          plain == Family(store.slices, loader, FALSE)
          suffixed == Family(store.slices, loader, TRUE)
          recent == Family(store.slices, loader, hist.last.es)
          earlier == Family(store.slices, loader, hist.prev.es)
          found == With(store.dashboards, "slug", DashboardOf(loader).slug)
      IN  /\ Cardinality(plain) = n
          /\ Cardinality(suffixed) = n
          /\ plain \cap suffixed = {}
          /\ \A s \in plain : s.datasource_type = "table" /\ s.table # 0
          /\ \A s \in suffixed :
                s.datasource_type = "elasticsearch" /\ s.elasticsearch_datasource # 0
          /\ earlier = Family(hist.start.store.slices, loader, hist.prev.es)
          /\ \A s \in recent : s.id > hist.startseq.slices
          /\ Cardinality(found) = 1
          /\ \A d \in found :
                /\ Len(d.slices) = n - 1
                /\ Members(d) \subseteq {s.id : s \in recent}
                /\ LayoutReadable(d.position_json)
                /\ \A i \in 1..Len(d.position_json) :
                      LayoutIds(d.position_json)[i] \in {s.id : s \in recent}

\* C15 witness: load_world_bank_health_n_pop has run without and then with a
\* search cluster handle: 22 slices, 11 of them on the cluster datasource.
C15_Witness ==
    /\ SwitchedMode
    /\ hist.last.loader = "load_world_bank_health_n_pop"
    /\ ~hist.prev.es
    /\ hist.last.es
    /\ Cardinality(store.slices) = 22
    /\ Cardinality({s \in store.slices : s.datasource_type = "elasticsearch"}) = 11


=============================================================================
